---- MODULE Spec2Model ----
(***************************************************************************)
(* Super Bowl squares: the odds-to-EV computation (squares-analysis), the  *)
(* pasted-text board parser (squares-parse) and the dashboard that holds   *)
(* a board and odds and recomputes the analysis from them.                 *)
(*                                                                         *)
(* JavaScript numbers that take part in the probability arithmetic are     *)
(* exact rationals <<n, d>> (d > 0, lowest terms).  JavaScript strings     *)
(* that the code inspects character by character are sequences of          *)
(* one-character strings; error messages are plain strings.  Arrays are    *)
(* sequences, so the JavaScript index i is the TLA+ index i + 1.           *)
(***************************************************************************)
EXTENDS Integers, Sequences, FiniteSets, TLC

VARIABLES
    dashboard,  \* the state of the SquaresDashboard component, one field per useState
    pc,         \* position of the call under test: "call" before, "done" after,
                \* "idle" when the dashboard runs
    arg,        \* the arguments of the call under test
    ret         \* what the call returned or threw

vars == <<dashboard, pc, arg, ret>>

----------------------------------------------------------------------------
(* Exact rational arithmetic standing for JavaScript's number arithmetic.  *)

Abs(x) == IF x < 0 THEN -x ELSE x

RECURSIVE GCD(_, _)
GCD(a, b) == IF b = 0 THEN a ELSE GCD(b, a % b)

\* n / d in lowest terms with a positive denominator (d # 0).
Rat(n, d) ==
    LET g == GCD(Abs(n), Abs(d))
        s == IF d < 0 THEN -1 ELSE 1
    IN  <<(s * n) \div g, (s * d) \div g>>

RatInt(n) == <<n, 1>>

RatAdd(x, y) ==
    LET g == GCD(x[2], y[2])
    IN  Rat(x[1] * (y[2] \div g) + y[1] * (x[2] \div g), (x[2] \div g) * y[2])

RatMul(x, y) ==
    LET a == Rat(x[1], y[2])
        b == Rat(y[1], x[2])
    IN  <<a[1] * b[1], a[2] * b[2]>>

\* x / y for y # 0.
RatDiv(x, y) == RatMul(x, Rat(y[2], y[1]))

\* The two sides are brought to the least common denominator.
RatLess(x, y) ==
    x[1] * (y[2] \div GCD(x[2], y[2])) < y[1] * (x[2] \div GCD(x[2], y[2]))

RatLeq(x, y) ==
    x[1] * (y[2] \div GCD(x[2], y[2])) <= y[1] * (x[2] \div GCD(x[2], y[2]))

RatZero == RatInt(0)

RatOne == RatInt(1)

----------------------------------------------------------------------------
(* Values a JavaScript expression can yield where the code tests them.     *)

Num(v) == [kind |-> "number", v |-> v]

NaN == [kind |-> "NaN", v |-> 0]

Undefined == [kind |-> "undefined", v |-> 0]

\* null
Null == [null |-> TRUE]

\* Number.isFinite(x): a number that is neither NaN nor infinite.
NumberIsFinite(x) == x.kind = "number"

Returned(v) == [threw |-> FALSE, value |-> v, error |-> ""]

Thrown(msg) == [threw |-> TRUE, value |-> <<>>, error |-> msg]

----------------------------------------------------------------------------
(* squares-analysis                                                        *)

DIGITS == 0 .. 9

defaultDigits == [i \in 1 .. 10 |-> i - 1]

americanToRawProbability_Swapped(american) ==
    IF american > 0
    THEN Returned(Rat(american, american + 100))
    ELSE IF american < 0
         THEN Returned(Rat(100, Abs(american) + 100))
         ELSE Thrown("American odds cannot be 0")

americanToRawProbability_ZeroIsPositive(american) ==
    IF american >= 0
    THEN Returned(Rat(100, american + 100))
    ELSE LET abs == Abs(american) IN Returned(Rat(abs, abs + 100))

americanToRawProbability(american) ==
    IF american > 0
    THEN Returned(Rat(100, american + 100))
    ELSE IF american < 0
         THEN LET abs == Abs(american) IN Returned(Rat(abs, abs + 100))
         ELSE Thrown("American odds cannot be 0")

\* An array built element by element; JavaScript builds it eagerly, and so
\* does the concatenation here.
ArrayOf(f) == f \o <<>>

createEmptyGrid(fill) == ArrayOf([a \in 1 .. 10 |-> ArrayOf([h \in 1 .. 10 |-> fill])])

isValidDigitArray_NoSet(digits) ==
    IF Len(digits) # 10
    THEN FALSE
    ELSE \A i \in 1 .. Len(digits) : digits[i] >= 0 /\ digits[i] <= 9

isValidDigitArray(digits) ==
    IF Len(digits) # 10
    THEN FALSE
    ELSE /\ Cardinality({digits[i] : i \in 1 .. Len(digits)}) = 10
         /\ \A i \in 1 .. Len(digits) : digits[i] >= 0 /\ digits[i] <= 9

\* What String.prototype.trim() removes at either end.
WhiteSpace == {" ", "\t", "\n", "\r", "NBSP"}

RECURSIVE TrimStart(_)
TrimStart(s) ==
    IF s # <<>> /\ Head(s) \in WhiteSpace THEN TrimStart(Tail(s)) ELSE s

RECURSIVE TrimEnd(_)
TrimEnd(s) ==
    IF s # <<>> /\ s[Len(s)] \in WhiteSpace
    THEN TrimEnd(SubSeq(s, 1, Len(s) - 1))
    ELSE s

Trim(s) == TrimEnd(TrimStart(s))

\* grid[i]?.[j]
GridAt(grid, i, j) ==
    IF i + 1 \in DOMAIN grid
    THEN IF j + 1 \in DOMAIN grid[i + 1] THEN grid[i + 1][j + 1] ELSE Undefined
    ELSE Undefined

OddsCell_SwappedNames(odds, k) ==
    LET awayDigit == k \div 10
        homeDigit == k % 10
        finalOdds == GridAt(odds.finalResultOdds, awayDigit, homeDigit)
        anyQuarterOdds == GridAt(odds.anyQuarterOdds, awayDigit, homeDigit)
    IN  IF ~NumberIsFinite(finalOdds) \/ ~NumberIsFinite(anyQuarterOdds)
        THEN Thrown("Missing odds for away=" \o ToString(homeDigit)
                    \o ", home=" \o ToString(awayDigit))
        ELSE LET rawFinal == americanToRawProbability(finalOdds.v)
             IN  IF rawFinal.threw
                 THEN rawFinal
                 ELSE LET rawAnyQuarter == americanToRawProbability(anyQuarterOdds.v)
                      IN  IF rawAnyQuarter.threw
                          THEN rawAnyQuarter
                          ELSE Returned(<<rawFinal.value, rawAnyQuarter.value>>)

\* The body of the double loop over DIGITS for the pair k = 10 * awayDigit +
\* homeDigit: the thrown error, or the two raw probabilities.
OddsCell(odds, k) ==
    LET awayDigit == k \div 10
        homeDigit == k % 10
        finalOdds == GridAt(odds.finalResultOdds, awayDigit, homeDigit)
        anyQuarterOdds == GridAt(odds.anyQuarterOdds, awayDigit, homeDigit)
    IN  IF ~NumberIsFinite(finalOdds) \/ ~NumberIsFinite(anyQuarterOdds)
        THEN Thrown("Missing odds for away=" \o ToString(awayDigit)
                    \o ", home=" \o ToString(homeDigit))
        ELSE LET rawFinal == americanToRawProbability(finalOdds.v)
             IN  IF rawFinal.threw
                 THEN rawFinal
                 ELSE LET rawAnyQuarter == americanToRawProbability(anyQuarterOdds.v)
                      IN  IF rawAnyQuarter.threw
                          THEN rawAnyQuarter
                          ELSE Returned(<<rawFinal.value, rawAnyQuarter.value>>)

Blend_Subtract(finalResultWeight, rawFinal, anyQuarterWeight, rawAnyQuarter) ==
    RatAdd(RatMul(finalResultWeight, rawFinal),
           RatMul(RatInt(-1), RatMul(anyQuarterWeight, rawAnyQuarter)))

\* finalResultWeight * rawFinal + anyQuarterWeight * rawAnyQuarter
Blend(finalResultWeight, rawFinal, anyQuarterWeight, rawAnyQuarter) ==
    RatAdd(RatMul(finalResultWeight, rawFinal), RatMul(anyQuarterWeight, rawAnyQuarter))

\* The exact sum s[lo] + ... + s[hi] (0 when lo > hi), taken by halves to keep
\* the evaluation shallow: exact addition is associative.
RECURSIVE SumRange(_, _, _)
SumRange(s, lo, hi) ==
    IF lo > hi THEN RatZero
    ELSE IF lo = hi THEN s[lo]
    ELSE LET mid == (lo + hi) \div 2
             left == SumRange(s, lo, mid)
             right == SumRange(s, mid + 1, hi)
         IN  RatAdd(left, right)

\* array.reduce((sum, value) => sum + value, 0)
SumArray(s) == SumRange(s, 1, Len(s))

Normalize_ByCells(value, total) == RatDiv(value, RatInt(100))

\* combinedRaw[awayDigit][homeDigit] / totalCombinedRaw
Normalize(value, total) == RatDiv(value, total)

SortDesc_Unsorted(s) == s

\* Array.prototype.sort with the comparator (a, b) => b.key - a.key over
\* entries <<key, payload>>: the sort is stable, so an entry goes after the
\* entries with a larger key and after the earlier entries with an equal key.
SortDesc(s) ==
    LET rank(i) == Cardinality({j \in DOMAIN s : RatLess(s[i][1], s[j][1])})
                   + Cardinality({j \in DOMAIN s : j < i /\ s[j][1] = s[i][1]}) + 1
    IN  [p \in DOMAIN s |-> s[CHOOSE i \in DOMAIN s : rank(i) = p]]

\* The cells k of 0 .. n - 1 with P[k], in increasing order.
SelectCells(P, n) ==
    LET S == {k \in 0 .. n - 1 : P[k]}
    IN  [i \in 1 .. Cardinality(S) |-> CHOOSE k \in S : Cardinality({j \in S : j <= k}) = i]

\* grid.flat().reduce((sum, value) => sum + value, 0)
SumGrid(grid) == SumArray(ArrayOf([r \in 1 .. Len(grid) |-> SumArray(grid[r])]))

(* computeSquaresAnalysis, one operator per stretch of the function: each  *)
(* takes the values the earlier lines have computed as its parameters.     *)

\* Lines 784-806: ownerStats from ownerTotals, both sorts, sumEv, the result.
AnalysisResult(locals, totalPot, combinedProbability, evByDigit, boardEv, squares, ownerTotals) ==
    LET ownerStats == SortDesc(ArrayOf([i \in 1 .. Len(ownerTotals) |->
                                  <<ownerTotals[i].totalEv, ownerTotals[i]>>]))
        topSquares == SortDesc(ArrayOf([i \in 1 .. Len(squares) |-> <<squares[i].ev, squares[i]>>]))
    IN  Returned([totalPot |-> totalPot,
                  sumEv |-> SumGrid(boardEv),
                  evByDigit |-> evByDigit,
                  combinedProbability |-> combinedProbability,
                  boardEv |-> boardEv,
                  ownerStats |-> ArrayOf([i \in 1 .. Len(ownerStats) |-> ownerStats[i][2]]),
                  topSquares |-> ArrayOf([i \in 1 .. Len(topSquares) |-> topSquares[i][2]]),
                  \* locals of the call, kept for the properties about them
                  rawFinal |-> locals.rawFinal,
                  rawAnyQuarter |-> locals.rawAnyQuarter,
                  combinedRaw |-> locals.combinedRaw,
                  totalCombinedRaw |-> locals.totalCombinedRaw])

OwnerTotal_LastEv(squares, name) ==
    LET mine == SelectCells([i \in 0 .. Len(squares) - 1 |-> squares[i + 1].owner = name],
                            Len(squares))
        evs == ArrayOf([i \in 1 .. Len(mine) |-> squares[mine[i] + 1].ev])
        totalEv == SumArray(evs)
    IN  [owner |-> name,
         numSquares |-> Len(mine),
         totalEv |-> totalEv,
         evPerSquare |-> RatDiv(totalEv, RatInt(Len(mine))),
         bestSquareEv |-> evs[Len(evs)]]

\* Lines 774-778: the ownerTotals entry of one owner, from the squares pushed
\* for the occupied cells.
OwnerTotal(squares, name) ==
    LET mine == SelectCells([i \in 0 .. Len(squares) - 1 |-> squares[i + 1].owner = name],
                            Len(squares))
        evs == ArrayOf([i \in 1 .. Len(mine) |-> squares[mine[i] + 1].ev])
        totalEv == SumArray(evs)
    IN  [owner |-> name,
         numSquares |-> Len(mine),
         totalEv |-> totalEv,
         evPerSquare |-> RatDiv(totalEv, RatInt(Len(mine))),
         bestSquareEv |-> CHOOSE m \in {evs[i] : i \in DOMAIN evs} :
                             \A i \in DOMAIN evs : RatLeq(evs[i], m)]

\* Lines 756-782: ownerTotals, a Map keyed by owner in order of first
\* appearance among the occupied cells.
AnalysisOwners(locals, totalPot, combinedProbability, evByDigit, boardEv, squares) ==
    LET firsts == SelectCells([i \in 0 .. Len(squares) - 1 |->
                      \A j \in 1 .. i : squares[j].owner # squares[i + 1].owner], Len(squares))
    IN  AnalysisResult(locals, totalPot, combinedProbability, evByDigit, boardEv, squares,
            ArrayOf([i \in 1 .. Len(firsts) |-> OwnerTotal(squares, squares[firsts[i] + 1].owner)]))

\* Lines 759-782: the square pushed for each occupied cell, in row-major order.
AnalysisSquares(board, locals, totalPot, combinedProbability, evByDigit, boardEv, owner) ==
    LET occupied == SelectCells([k \in 0 .. 99 |-> owner[(k \div 10) + 1][(k % 10) + 1] # <<>>], 100)
    IN  AnalysisOwners(locals, totalPot, combinedProbability, evByDigit, boardEv,
            ArrayOf([i \in 1 .. Len(occupied) |->
                LET k == occupied[i]
                    awayDigit == board.awayDigits[(k \div 10) + 1]
                    homeDigit == board.homeDigits[(k % 10) + 1]
                IN  [owner |-> owner[(k \div 10) + 1][(k % 10) + 1],
                     homeDigit |-> homeDigit,
                     awayDigit |-> awayDigit,
                     ev |-> evByDigit[awayDigit + 1][homeDigit + 1],
                     probability |-> combinedProbability[awayDigit + 1][homeDigit + 1]]]))

AnalysisBoard_Transposed(board, locals, totalPot, combinedProbability, evByDigit) ==
    AnalysisSquares(board, locals, totalPot, combinedProbability, evByDigit,
        ArrayOf([row \in 1 .. 10 |-> ArrayOf([col \in 1 .. 10 |->
            evByDigit[board.homeDigits[col] + 1][board.awayDigits[row] + 1]])]),
        ArrayOf([row \in 1 .. 10 |-> ArrayOf([col \in 1 .. 10 |->
            Trim(board.owners[row][col])])]))

\* Lines 755-768: boardEv[row][col] and the trimmed owner of every cell.
AnalysisBoard(board, locals, totalPot, combinedProbability, evByDigit) ==
    AnalysisSquares(board, locals, totalPot, combinedProbability, evByDigit,
        ArrayOf([row \in 1 .. 10 |-> ArrayOf([col \in 1 .. 10 |->
            evByDigit[board.awayDigits[row] + 1][board.homeDigits[col] + 1]])]),
        ArrayOf([row \in 1 .. 10 |-> ArrayOf([col \in 1 .. 10 |->
            Trim(board.owners[row][col])])]))

\* Lines 747-753: evByDigit = probability * totalPot.
AnalysisEv(board, locals, totalPot, combinedProbability) ==
    AnalysisBoard(board, locals, totalPot, combinedProbability,
        ArrayOf([a \in 1 .. 10 |-> ArrayOf([h \in 1 .. 10 |->
            RatMul(combinedProbability[a][h], totalPot)])]))

\* Lines 738-750: the degenerate-mass check, totalPot, combinedProbability.
AnalysisNormalize(board, squarePrice, locals) ==
    IF RatLeq(locals.totalCombinedRaw, RatZero)
    THEN Thrown("Unable to compute probabilities from odds.")
    ELSE AnalysisEv(board, locals, RatMul(squarePrice, RatInt(100)),
            ArrayOf([a \in 1 .. 10 |-> ArrayOf([h \in 1 .. 10 |->
                Normalize(locals.combinedRaw[a][h], locals.totalCombinedRaw)])]))

\* Line 738: totalCombinedRaw.
AnalysisTotal(board, squarePrice, rawFinal, rawAnyQuarter, combinedRaw) ==
    AnalysisNormalize(board, squarePrice,
        [rawFinal |-> rawFinal, rawAnyQuarter |-> rawAnyQuarter,
         combinedRaw |-> combinedRaw, totalCombinedRaw |-> SumGrid(combinedRaw)])

\* Lines 721-736: the loop over the digit pairs throws at the first pair (in
\* scan order) whose body throws; otherwise it fills the three raw grids.
AnalysisBlend(board, squarePrice, finalResultWeight, anyQuarterWeight, cell) ==
    LET failing == {k \in 1 .. 100 : cell[k].threw}
    IN  IF failing # {}
        THEN cell[CHOOSE k \in failing : \A j \in failing : k <= j]
        ELSE AnalysisTotal(board, squarePrice,
                ArrayOf([a \in 1 .. 10 |-> ArrayOf([h \in 1 .. 10 |->
                    cell[10 * (a - 1) + h].value[1]])]),
                ArrayOf([a \in 1 .. 10 |-> ArrayOf([h \in 1 .. 10 |->
                    cell[10 * (a - 1) + h].value[2]])]),
                ArrayOf([a \in 1 .. 10 |-> ArrayOf([h \in 1 .. 10 |->
                    Blend(finalResultWeight, cell[10 * (a - 1) + h].value[1],
                          anyQuarterWeight, cell[10 * (a - 1) + h].value[2])])]))

computeSquaresAnalysis_AwayFirst(board, odds, squarePrice, finalResultWeight, anyQuarterWeight) ==
    IF ~isValidDigitArray(board.awayDigits)
    THEN Thrown("Away digits must contain each digit 0-9 exactly once.")
    ELSE IF ~isValidDigitArray(board.homeDigits)
    THEN Thrown("Home digits must contain each digit 0-9 exactly once.")
    ELSE IF Len(board.owners) # 10 \/ \E r \in DOMAIN board.owners : Len(board.owners[r]) # 10
    THEN Thrown("Board ownership grid must be 10x10.")
    ELSE AnalysisBlend(board, squarePrice, finalResultWeight, anyQuarterWeight,
            ArrayOf([k \in 1 .. 100 |-> OddsCell(odds, k - 1)]))

computeSquaresAnalysis(board, odds, squarePrice, finalResultWeight, anyQuarterWeight) ==
    IF ~isValidDigitArray(board.homeDigits)
    THEN Thrown("Home digits must contain each digit 0-9 exactly once.")
    ELSE IF ~isValidDigitArray(board.awayDigits)
    THEN Thrown("Away digits must contain each digit 0-9 exactly once.")
    ELSE IF Len(board.owners) # 10 \/ \E r \in DOMAIN board.owners : Len(board.owners[r]) # 10
    THEN Thrown("Board ownership grid must be 10x10.")
    ELSE AnalysisBlend(board, squarePrice, finalResultWeight, anyQuarterWeight,
            ArrayOf([k \in 1 .. 100 |-> OddsCell(odds, k - 1)]))

----------------------------------------------------------------------------
(* squares-parse: strings are sequences of one-character strings.  The     *)
(* characters outside ASCII that the code names are the tokens "NBSP"      *)
(* (U+00A0), "FWCOMMA" (U+FF0C), "LDQUO" and "RDQUO" (U+201C, U+201D); the *)
(* backtick is the token "BACKTICK".                                       *)

LowerLetters == <<"a", "b", "c", "d", "e", "f", "g", "h", "i", "j", "k", "l", "m",
                  "n", "o", "p", "q", "r", "s", "t", "u", "v", "w", "x", "y", "z">>

UpperLetters == <<"A", "B", "C", "D", "E", "F", "G", "H", "I", "J", "K", "L", "M",
                  "N", "O", "P", "Q", "R", "S", "T", "U", "V", "W", "X", "Y", "Z">>

DecimalDigits == <<"0", "1", "2", "3", "4", "5", "6", "7", "8", "9">>

\* Math.max and Math.min over a non-empty set of integers.
MaxOf(S) == CHOOSE m \in S : \A x \in S : x <= m

MinOf(S) == CHOOSE m \in S : \A x \in S : m <= x

\* The elements of a sequence.
Range(s) == {s[i] : i \in DOMAIN s}

\* The index of c in the sequence s of distinct elements.
IndexIn(s, c) == CHOOSE i \in DOMAIN s : s[i] = c

\* String.prototype.toLowerCase, character by character.
ToLowerCase(s) ==
    ArrayOf([i \in 1 .. Len(s) |->
        IF s[i] \in Range(UpperLetters) THEN LowerLetters[IndexIn(UpperLetters, s[i])] ELSE s[i]])

StartsWith(s, prefix) == Len(prefix) <= Len(s) /\ SubSeq(s, 1, Len(prefix)) = prefix

EndsWith(s, suffix) ==
    Len(suffix) <= Len(s) /\ SubSeq(s, Len(s) - Len(suffix) + 1, Len(s)) = suffix

\* The indices of s whose character is ch, in increasing order.
IndicesOf(s, ch) == SelectSeq(ArrayOf([i \in 1 .. Len(s) |-> i]), LAMBDA i : s[i] = ch)

\* String.prototype.split(sep) for a one-character separator.
Split(s, sep) ==
    LET at == IndicesOf(s, sep)
    IN  ArrayOf([k \in 1 .. Len(at) + 1 |->
            SubSeq(s, IF k = 1 THEN 1 ELSE at[k - 1] + 1,
                      IF k = Len(at) + 1 THEN Len(s) ELSE at[k] - 1)])

\* value.replace(/\s+/g, " ")
CollapseWhiteSpace(s) ==
    SelectSeq(ArrayOf([i \in 1 .. Len(s) |->
                  IF s[i] \notin WhiteSpace THEN s[i]
                  ELSE IF i > 1 /\ s[i - 1] \in WhiteSpace THEN "" ELSE " "]),
              LAMBDA c : c # "")

\* String(value).replace(/\s+/g, " ").trim()
normalizeCell(value) == Trim(CollapseWhiteSpace(value))

\* parseCsvLine from character i on: current is the cell being read and
\* cells the cells already closed.
RECURSIVE ParseCsvFrom(_, _, _, _, _, _)
ParseCsvFrom(line, delimiter, i, current, inQuotes, cells) ==
    IF i > Len(line)
    THEN Append(cells, current)
    ELSE IF line[i] = "\""
    THEN IF inQuotes /\ i + 1 <= Len(line) /\ line[i + 1] = "\""
         THEN ParseCsvFrom(line, delimiter, i + 2, Append(current, "\""), inQuotes, cells)
         ELSE ParseCsvFrom(line, delimiter, i + 1, current, ~inQuotes, cells)
    ELSE IF line[i] = delimiter /\ ~inQuotes
    THEN ParseCsvFrom(line, delimiter, i + 1, <<>>, inQuotes, Append(cells, current))
    ELSE ParseCsvFrom(line, delimiter, i + 1, Append(current, line[i]), inQuotes, cells)

parseCsvLine(line, delimiter) == ParseCsvFrom(line, delimiter, 1, <<>>, FALSE, <<>>)

Wrappers == << << <<"BACKTICK", "BACKTICK", "BACKTICK">>, <<"BACKTICK", "BACKTICK", "BACKTICK">> >>,
               << <<"LDQUO">>, <<"RDQUO">> >>,
               << <<"\"">>, <<"\"">> >>,
               << <<"'">>, <<"'">> >>,
               << <<"BACKTICK">>, <<"BACKTICK">> >>,
               << <<"(">>, <<")">> >> >>

\* text.replace(/^\s*\n+/, ""): the leading run of white space is cut up to
\* and including its last line break.
StripLeadingBlankLines(text) ==
    LET run == CHOOSE n \in 0 .. Len(text) :
                   /\ \A i \in 1 .. n : text[i] \in WhiteSpace
                   /\ n < Len(text) => text[n + 1] \notin WhiteSpace
        breaks == {i \in 1 .. run : text[i] = "\n"}
    IN  IF breaks = {}
        THEN text
        ELSE SubSeq(text, (CHOOSE i \in breaks : \A j \in breaks : j <= i) + 1, Len(text))

\* text.replace(/\n+\s*$/, ""): the trailing run of white space is cut from
\* its first line break on.
StripTrailingBlankLines(text) ==
    LET start == CHOOSE n \in 1 .. Len(text) + 1 :
                     /\ \A i \in n .. Len(text) : text[i] \in WhiteSpace
                     /\ n > 1 => text[n - 1] \notin WhiteSpace
        breaks == {i \in start .. Len(text) : text[i] = "\n"}
    IN  IF breaks = {}
        THEN text
        ELSE SubSeq(text, 1, (CHOOSE i \in breaks : \A j \in breaks : i <= j) - 1)

unwrapTextBlock(text) ==
    LET trimmed == Trim(text)
        fits == {w \in DOMAIN Wrappers :
                    /\ StartsWith(trimmed, Wrappers[w][1])
                    /\ EndsWith(trimmed, Wrappers[w][2])
                    /\ Len(trimmed) > Len(Wrappers[w][1]) + Len(Wrappers[w][2])}
    IN  IF fits # {}
        THEN LET w == CHOOSE x \in fits : \A y \in fits : x <= y
             IN  Trim(SubSeq(trimmed, Len(Wrappers[w][1]) + 1,
                             Len(trimmed) - Len(Wrappers[w][2])))
        ELSE StripTrailingBlankLines(StripLeadingBlankLines(text))

\* text.replace(/BACKTICK{3}/g, ""): in each run of n backticks the first
\* 3 * (n \div 3) are removed.
RemoveFences(text) ==
    IF "BACKTICK" \notin Range(text)
    THEN text
    ELSE LET ticks(i) == text[i] = "BACKTICK"
             runStart(i) == CHOOSE a \in 1 .. i :
                                /\ \A j \in a .. i : ticks(j)
                                /\ a > 1 => ~ticks(a - 1)
             runEnd(i) == CHOOSE b \in i .. Len(text) :
                              /\ \A j \in i .. b : ticks(j)
                              /\ b < Len(text) => ~ticks(b + 1)
             removed(i) == /\ ticks(i)
                           /\ i - runStart(i) < 3 * ((runEnd(i) - runStart(i) + 1) \div 3)
             kept == SelectSeq(ArrayOf([i \in 1 .. Len(text) |-> i]), LAMBDA i : ~removed(i))
         IN  ArrayOf([k \in 1 .. Len(kept) |-> text[kept[k]]])

\* unwrapTextBlock(text).replace(/[NBSP]/g, " ").replace(/[FWCOMMA]/g, ",")
\*    .replace(/\r/g, "").replace(/BACKTICK{3}/g, "")
CleanText(text) ==
    RemoveFences(
        SelectSeq(ArrayOf([i \in 1 .. Len(text) |->
                      IF text[i] = "NBSP" THEN " "
                      ELSE IF text[i] = "FWCOMMA" THEN ","
                      ELSE text[i]]),
                  LAMBDA c : c # "\r"))

\* row.some((cell) => cell.length > 0)
SomeCell(row) == \E c \in DOMAIN row : row[c] # <<>>

\* cleanedText.split("\n").map((line) => line.replace(/\s+$/, ""))
\*    .filter((line) => line.trim().length > 0)
SplitLines(cleanedText) ==
    LET split == Split(cleanedText, "\n")
    IN  SelectSeq(ArrayOf([i \in 1 .. Len(split) |-> TrimEnd(split[i])]), LAMBDA line : Trim(line) # <<>>)

\* The loop over csvRows (lines 260-283) from row i on.
RECURSIVE MergeFrom(_, _, _, _, _)
MergeFrom(csvRows, targetColumns, i, mergedRows, pending) ==
    IF i > Len(csvRows)
    THEN [mergedRows |-> mergedRows, pending |-> pending]
    ELSE
    LET row == csvRows[i]
    IN  IF Len(row) = targetColumns
        THEN MergeFrom(csvRows, targetColumns, i + 1,
                       IF pending # Null
                       THEN mergedRows \o <<pending.cells, row>>
                       ELSE Append(mergedRows, row),
                       Null)
        ELSE
        LET flushed == pending # Null
                       /\ ~(Len(pending.cells) < targetColumns /\ Len(row) < targetColumns)
            joined == IF pending = Null \/ flushed THEN row ELSE pending.cells \o row
            merged1 == IF flushed THEN Append(mergedRows, pending.cells) ELSE mergedRows
        IN  IF Len(joined) >= targetColumns
            THEN MergeFrom(csvRows, targetColumns, i + 1,
                           Append(merged1, SubSeq(joined, 1, targetColumns)),
                           IF Len(joined) > targetColumns
                           THEN [cells |-> SubSeq(joined, targetColumns + 1, Len(joined))]
                           ELSE Null)
            ELSE MergeFrom(csvRows, targetColumns, i + 1, merged1, [cells |-> joined])

TargetColumns_Modal(csvRows) ==
    LET widths == {Len(csvRows[i]) : i \in DOMAIN csvRows}
        count(w) == Cardinality({i \in DOMAIN csvRows : Len(csvRows[i]) = w})
    IN  IF widths = {} THEN 1
        ELSE CHOOSE w \in widths :
                \A v \in widths : count(v) < count(w) \/ (count(v) = count(w) /\ w <= v)

\* Math.max(1, ...csvRows.map((row) => row.length))
TargetColumns(csvRows) == MaxOf({1} \cup {Len(csvRows[i]) : i \in DOMAIN csvRows})

\* Lines 252-289: ragged rows are merged up to the target width.
MergeRaggedRows(csvRows) ==
    LET done == MergeFrom(csvRows, TargetColumns(csvRows), 1, <<>>, Null)
        mergedRows == IF done.pending # Null /\ SomeCell(done.pending.cells)
                      THEN Append(done.mergedRows, done.pending.cells)
                      ELSE done.mergedRows
    IN  SelectSeq(mergedRows, SomeCell)

\* Lines 234-289, on the lines of the cleaned text.
RowsOfLines(lines) ==
    IF \E i \in DOMAIN lines : "\t" \in Range(lines[i])
    THEN SelectSeq(ArrayOf([i \in 1 .. Len(lines) |->
                      LET cells == Split(lines[i], "\t")
                      IN  ArrayOf([c \in 1 .. Len(cells) |-> normalizeCell(cells[c])])]),
                   SomeCell)
    ELSE
    LET commaLines == Cardinality({i \in DOMAIN lines : "," \in Range(lines[i])})
        semicolonLines == Cardinality({i \in DOMAIN lines : ";" \in Range(lines[i])})
    IN  IF commaLines = 0 /\ semicolonLines = 0
        THEN SelectSeq(ArrayOf([i \in 1 .. Len(lines) |-> <<normalizeCell(lines[i])>>]), SomeCell)
        ELSE MergeRaggedRows(
                SelectSeq(ArrayOf([i \in 1 .. Len(lines) |->
                             LET cells == parseCsvLine(lines[i],
                                              IF commaLines >= semicolonLines THEN "," ELSE ";")
                             IN  ArrayOf([c \in 1 .. Len(cells) |-> normalizeCell(cells[c])])]),
                          SomeCell))

parseRows(text) == RowsOfLines(SplitLines(CleanText(unwrapTextBlock(text))))

\* A finite number that need not be an integer: v is the fraction <<n, d>>.
Real(q) == [kind |-> "real", v |-> q]

IsDigits(s) == s # <<>> /\ \A i \in DOMAIN s : s[i] \in Range(DecimalDigits)

\* The value of a string of decimal digits (0 for the empty string).
RECURSIVE DecimalValue(_)
DecimalValue(s) ==
    IF s = <<>> THEN 0
    ELSE 10 * DecimalValue(SubSeq(s, 1, Len(s) - 1)) + (IndexIn(DecimalDigits, s[Len(s)]) - 1)

RECURSIVE PowerOfTen(_)
PowerOfTen(n) == IF n = 0 THEN 1 ELSE 10 * PowerOfTen(n - 1)

\* The number a sign, digits before the point and digits after it denote;
\* NaN unless both are digits or empty, and not both empty.
DecimalLiteral(sign, whole, fraction) ==
    IF /\ whole = <<>> \/ IsDigits(whole)
       /\ fraction = <<>> \/ IsDigits(fraction)
       /\ whole # <<>> \/ fraction # <<>>
    THEN Real(Rat(sign * (DecimalValue(whole) * PowerOfTen(Len(fraction)) + DecimalValue(fraction)),
                  PowerOfTen(Len(fraction))))
    ELSE NaN

\* body is the literal without its sign and points the indices of its ".".
UnsignedLiteral(sign, body, points) ==
    IF Len(points) = 0
    THEN IF IsDigits(body) THEN Real(RatInt(sign * DecimalValue(body))) ELSE NaN
    ELSE IF Len(points) > 1 THEN NaN
    ELSE DecimalLiteral(sign, SubSeq(body, 1, points[1] - 1),
                        SubSeq(body, points[1] + 1, Len(body)))

\* Number(value) for a non-empty string without surrounding white space: an
\* optionally signed decimal literal with an optional fraction.  Every other
\* string over the characters of the pasted texts is NaN; the literals with
\* an exponent or a radix prefix and "Infinity" are outside that alphabet.
StringToNumber(value) ==
    IF value[1] \in {"+", "-"}
    THEN UnsignedLiteral(IF value[1] = "-" THEN -1 ELSE 1, SubSeq(value, 2, Len(value)),
                         IndicesOf(SubSeq(value, 2, Len(value)), "."))
    ELSE UnsignedLiteral(1, value, IndicesOf(value, "."))

NumberIsInteger(x) == x.kind = "real" /\ x.v[2] = 1

\* Lines 198-202 of maybeDigit, on the parsed number.
DigitOf(parsed) ==
    IF ~NumberIsInteger(parsed) \/ parsed.v[1] < 0 \/ parsed.v[1] > 9
    THEN Null
    ELSE Num(parsed.v[1])

maybeDigit(value) == IF value = <<>> THEN Null ELSE DigitOf(StringToNumber(value))

\* cells.slice(start, start + 10).map(maybeDigit), start counted from 0
DigitWindow(cells, start) == ArrayOf([i \in 1 .. 10 |-> maybeDigit(cells[start + i])])

\* candidate as number[]
WindowDigits(candidate) == ArrayOf([i \in 1 .. 10 |-> candidate[i].v])

\* Lines 208-215: the candidate is one the loop of extractDigitsFromRow returns.
IsHeaderCandidate(candidate) ==
    /\ \A i \in 1 .. 10 : candidate[i] # Null
    /\ isValidDigitArray(WindowDigits(candidate))

IsHeaderWindow(cells, start) == IsHeaderCandidate(DigitWindow(cells, start))

FirstWindow_Last(cells, starts) ==
    IF starts = {} THEN Null
    ELSE [startCol |-> MaxOf(starts), digits |-> WindowDigits(DigitWindow(cells, MaxOf(starts)))]

\* The loop of extractDigitsFromRow returns at the first start it accepts.
FirstWindow(cells, starts) ==
    IF starts = {} THEN Null
    ELSE [startCol |-> MinOf(starts), digits |-> WindowDigits(DigitWindow(cells, MinOf(starts)))]

extractDigitsFromRow(cells) ==
    FirstWindow(cells, {start \in 0 .. Len(cells) - 10 : IsHeaderWindow(cells, start)})

\* Row i of the table dp of editDistance, columns 0 .. b.length, given the
\* row before it; row holds the columns filled so far.
RECURSIVE FillRow(_, _, _, _, _)
FillRow(a, b, i, before, row) ==
    IF Len(row) = Len(b) + 1 THEN row
    ELSE LET j == Len(row)
             cost == IF a[i] = b[j] THEN 0 ELSE 1
         IN  FillRow(a, b, i, before,
                     Append(row, MinOf({before[j + 1] + 1, row[j] + 1, before[j] + cost})))

RECURSIVE DpRow(_, _, _)
DpRow(a, b, i) ==
    IF i = 0 THEN ArrayOf([j \in 1 .. Len(b) + 1 |-> j - 1])
    ELSE FillRow(a, b, i, DpRow(a, b, i - 1), <<i>>)

editDistance(a, b) == DpRow(a, b, Len(a))[Len(b) + 1]

Str_Steven == <<"S", "t", "e", "v", "e", "n">>

Key_steven == <<"s", "t", "e", "v", "e", "n">>

stevenVariants ==
    { Key_steven, <<"s", "t", "e", "v", "e">>, <<"s", "t", "e", "v", "i", "e">>,
      <<"s", "t", "e", "v", "o">>, <<"s", "e", "v", "e", "n">>, <<"t", "s", "e", "v", "e", "n">> }

\* cleaned.toLowerCase().replace(/[^a-z]/g, "")
LettersOnly(cleaned) == SelectSeq(ToLowerCase(cleaned), LAMBDA c : c \in Range(LowerLetters))

NameOfKey_AnyLength(cleaned, lettersOnly) ==
    IF lettersOnly = <<>> THEN cleaned
    ELSE IF \/ lettersOnly \in stevenVariants
            \/ StartsWith(lettersOnly, <<"s", "t", "e", "v">>)
            \/ EndsWith(lettersOnly, <<"s", "e", "v", "e", "n">>)
            \/ editDistance(lettersOnly, Key_steven) <= 2
    THEN Str_Steven
    ELSE cleaned

\* Lines 322-340, on the cleaned cell and its key.
NameOfKey(cleaned, lettersOnly) ==
    IF lettersOnly = <<>> THEN cleaned
    ELSE IF lettersOnly \in stevenVariants THEN Str_Steven
    ELSE IF /\ \/ StartsWith(lettersOnly, <<"s", "t", "e", "v">>)
               \/ EndsWith(lettersOnly, <<"s", "e", "v", "e", "n">>)
            /\ Len(lettersOnly) <= 8
    THEN Str_Steven
    ELSE IF /\ Len(lettersOnly) >= 5
            /\ Len(lettersOnly) <= 8
            /\ editDistance(lettersOnly, Key_steven) <= 2
    THEN Str_Steven
    ELSE cleaned

normalizeOwnerName_Verbatim(value) == normalizeCell(value)

normalizeOwnerName(value) ==
    LET cleaned == normalizeCell(value)
    IN  IF cleaned = <<>> THEN cleaned ELSE NameOfKey(cleaned, LettersOnly(cleaned))

HomeTeamPlaceholder == <<"H", "o", "m", "e", " ", "T", "e", "a", "m">>

AwayTeamPlaceholder == <<"A", "w", "a", "y", " ", "T", "e", "a", "m">>

\* What a call of parseSquaresFromPastedText returned or threw, with the
\* locals it had computed by then.
ParseOutcome(outcome, locals) ==
    [threw |-> outcome.threw, value |-> outcome.value, error |-> outcome.error,
     locals |-> locals]

\* row[index] ?? "" for an index counted from 0.
CellAt(row, index) == IF index >= 0 /\ index < Len(row) THEN row[index + 1] ELSE <<>>

TeamLabel_AcceptsDigits(candidate, placeholder) ==
    IF candidate # <<>> THEN candidate ELSE placeholder

\* The team label taken from a candidate cell (lines 398-412).
TeamLabel(candidate, placeholder) ==
    IF candidate # <<>> /\ maybeDigit(candidate) = Null THEN candidate ELSE placeholder

ParseBoard_KeepsInvalidAway(rows, header, ownersStartRow, ownerRows, awayDigitsRaw) ==
    LET awayDigits == ArrayOf([k \in 1 .. Len(awayDigitsRaw) |->
                          IF awayDigitsRaw[k] = Null THEN k - 1 ELSE awayDigitsRaw[k].v])
    IN  [homeTeam |-> IF header.headerRowIndex > 0
                      THEN TeamLabel(CellAt(rows[header.headerRowIndex], header.startCol),
                                     HomeTeamPlaceholder)
                      ELSE HomeTeamPlaceholder,
         awayTeam |-> IF ownersStartRow < Len(rows) /\ header.startCol > 1
                      THEN TeamLabel(CellAt(rows[ownersStartRow + 1], header.startCol - 2),
                                     AwayTeamPlaceholder)
                      ELSE AwayTeamPlaceholder,
         homeDigits |-> header.homeDigits,
         awayDigits |-> awayDigits,
         owners |-> ownerRows]

\* Lines 388-420: the away axis, the team labels and the returned board.
ParseBoard(rows, header, ownersStartRow, ownerRows, awayDigitsRaw) ==
    LET awayDigits == ArrayOf([k \in 1 .. Len(awayDigitsRaw) |->
                          IF awayDigitsRaw[k] = Null THEN k - 1 ELSE awayDigitsRaw[k].v])
    IN  [homeTeam |-> IF header.headerRowIndex > 0
                      THEN TeamLabel(CellAt(rows[header.headerRowIndex], header.startCol),
                                     HomeTeamPlaceholder)
                      ELSE HomeTeamPlaceholder,
         awayTeam |-> IF ownersStartRow < Len(rows) /\ header.startCol > 1
                      THEN TeamLabel(CellAt(rows[ownersStartRow + 1], header.startCol - 2),
                                     AwayTeamPlaceholder)
                      ELSE AwayTeamPlaceholder,
         homeDigits |-> header.homeDigits,
         awayDigits |-> IF isValidDigitArray(awayDigits) THEN awayDigits ELSE defaultDigits,
         owners |-> ownerRows]

\* row.slice(startCol, startCol + 10)
OwnerSlice(row, startCol) == SubSeq(row, startCol + 1, startCol + 10)

\* The row at rowIndex (counted from 0) is pushed by the loop of lines 371-386.
Qualifies(rows, startCol, rowIndex) ==
    /\ ~(Len(rows[rowIndex + 1]) < startCol + 10)
    /\ ~(\A c \in 1 .. 10 : OwnerSlice(rows[rowIndex + 1], startCol)[c] = <<>>)

Collected_FromTop(rows, startCol, ownersStartRow) ==
    LET qualifying == SelectSeq(ArrayOf([k \in 1 .. Len(rows) |-> k - 1]),
                                LAMBDA rowIndex : Qualifies(rows, startCol, rowIndex))
    IN  SubSeq(qualifying, 1, IF Len(qualifying) < 10 THEN Len(qualifying) ELSE 10)

\* The indices of the rows the loop pushes, in order: it stops at the tenth.
Collected(rows, startCol, ownersStartRow) ==
    LET qualifying == SelectSeq(ArrayOf([k \in 1 .. Len(rows) - ownersStartRow |->
                                    ownersStartRow + k - 1]),
                                LAMBDA rowIndex : Qualifies(rows, startCol, rowIndex))
    IN  SubSeq(qualifying, 1, IF Len(qualifying) < 10 THEN Len(qualifying) ELSE 10)

\* Lines 366-392.
ParseOwners(rows, header, ownersStartRow, collected) ==
    LET locals == [rows |-> rows, headerRowIndex |-> header.headerRowIndex,
                   startCol |-> header.startCol, homeDigits |-> header.homeDigits,
                   ownersStartRow |-> ownersStartRow, collected |-> collected]
    IN  IF Len(collected) # 10
        THEN ParseOutcome(Thrown("Could not parse a full 10x10 owner grid from pasted text."),
                          locals)
        ELSE ParseOutcome(
                Returned(ParseBoard(rows, header, ownersStartRow,
                    ArrayOf([k \in 1 .. 10 |->
                        LET ownerSlice == OwnerSlice(rows[collected[k] + 1], header.startCol)
                        IN  ArrayOf([c \in 1 .. 10 |-> normalizeOwnerName(ownerSlice[c])])]),
                    ArrayOf([k \in 1 .. 10 |->
                        IF header.startCol > 0
                        THEN maybeDigit(CellAt(rows[collected[k] + 1], header.startCol - 1))
                        ELSE Null]))),
                locals)

\* Lines 354-359: what the loop assigns when it finds a window in a row.
HeaderAt(rowIndex, found) ==
    [headerRowIndex |-> rowIndex, startCol |-> found.startCol, homeDigits |-> found.digits]

\* Lines 349-364: the loop stops at the first of the rows in which
\* extractDigitsFromRow finds a window.
HeaderAmong(rows, rowsFound) ==
    IF rowsFound = {}
    THEN [headerRowIndex |-> -1, startCol |-> 0, homeDigits |-> defaultDigits]
    ELSE HeaderAt(MinOf(rowsFound), extractDigitsFromRow(rows[MinOf(rowsFound) + 1]))

FindHeader(rows) ==
    HeaderAmong(rows, {rowIndex \in 0 .. Len(rows) - 1 :
                          extractDigitsFromRow(rows[rowIndex + 1]) # Null})

OwnersStartRow(header) == IF header.headerRowIndex >= 0 THEN header.headerRowIndex + 1 ELSE 0

ParseHeader(rows, header) ==
    ParseOwners(rows, header, OwnersStartRow(header),
                Collected(rows, header.startCol, OwnersStartRow(header)))

ParseSquares_HeaderFirst(rows) == ParseHeader(rows, FindHeader(rows))

\* Lines 344-347, and the rest of the function on ten rows or more.
ParseSquares(rows) ==
    IF Len(rows) < 10
    THEN ParseOutcome(Thrown("Expected at least 10 rows from pasted Excel data."),
                      [rows |-> rows])
    ELSE ParseHeader(rows, FindHeader(rows))

\* The call with its locals kept.
ParseWithLocals(text) == ParseSquares(parseRows(text))

parseSquaresFromPastedText(text) ==
    LET outcome == ParseWithLocals(text)
    IN  [threw |-> outcome.threw, value |-> outcome.value, error |-> outcome.error]

----------------------------------------------------------------------------
(* Inputs of the calls under test.                                         *)

MaxOdds == 300

MaxPrice == 3

Str_Al == <<"A", "l">>

Str_Bo == <<"B", "o">>

Str_CyPadded == <<" ", "C", "y", " ">>

Str_Blank == <<" ">>

ReversedDigits == [i \in 1 .. 10 |-> 10 - i]

ScrambledDigits == <<3, 7, 0, 9, 1, 5, 8, 2, 6, 4>>

ValidAxes == {defaultDigits, ReversedDigits, ScrambledDigits}

InvalidAxes ==
    { <<0, 0, 2, 3, 4, 5, 6, 7, 8, 9>>,     \* a repeated digit
      <<0, 1, 2, 3, 4, 5, 6, 7, 8>>,        \* too short
      <<1, 2, 3, 4, 5, 6, 7, 8, 9, 10>> }   \* out of range

\* A partly claimed board: some names repeat, one is padded, some cells are
\* blank or empty.
SampleOwners ==
    [r \in 1 .. 10 |-> [c \in 1 .. 10 |->
        LET k == 10 * (r - 1) + (c - 1)
        IN  IF k % 7 = 0 THEN Str_Al
            ELSE IF k % 11 = 0 THEN Str_CyPadded
            ELSE IF k % 13 = 0 THEN Str_Bo
            ELSE IF k % 17 = 0 THEN Str_Blank
            ELSE <<>>]]

\* A board on which one name is written both padded and bare.
PaddedOwners ==
    [r \in 1 .. 10 |-> [c \in 1 .. 10 |->
        LET k == 10 * (r - 1) + (c - 1)
        IN  IF k % 9 = 0 THEN Str_CyPadded
            ELSE IF k % 9 = 4 THEN <<"C", "y">>
            ELSE IF k % 10 = 3 THEN Str_Al
            ELSE IF k % 10 = 7 THEN Str_Blank
            ELSE <<>>]]

MakeBoard(homeDigits, awayDigits, owners) ==
    [homeTeam |-> HomeTeamPlaceholder, awayTeam |-> AwayTeamPlaceholder,
     homeDigits |-> homeDigits, awayDigits |-> awayDigits, owners |-> owners]

ValidBoards == {MakeBoard(h, a, SampleOwners) : h \in ValidAxes, a \in ValidAxes}

InvalidBoards ==
    {MakeBoard(h, defaultDigits, SampleOwners) : h \in InvalidAxes}
    \cup {MakeBoard(ScrambledDigits, a, SampleOwners) : a \in InvalidAxes}
    \cup {MakeBoard(defaultDigits, defaultDigits, SubSeq(SampleOwners, 1, 9)),
          MakeBoard(defaultDigits, defaultDigits,
                    [SampleOwners EXCEPT ![4] = SubSeq(SampleOwners[4], 1, 9)]),
          MakeBoard(<<0, 0>>, <<1, 1>>, <<>>)}

FinalTable == <<100, 150, 400, -150>>

AnyQuarterTable == <<-300, 900, 100>>

VariedFinal == [a \in 1 .. 10 |-> [h \in 1 .. 10 |-> Num(FinalTable[(((a - 1) + 2 * (h - 1)) % 4) + 1])]]

VariedAnyQuarter == [a \in 1 .. 10 |-> [h \in 1 .. 10 |-> Num(AnyQuarterTable[((2 * (a - 1) + (h - 1)) % 3) + 1])]]

UniformGrid == [a \in 1 .. 10 |-> [h \in 1 .. 10 |-> Num(-110)]]

PatchCells == {<<0, 0>>, <<3, 7>>, <<5, 9>>, <<9, 9>>}

PatchKinds == {"NaN", "undefined", "zero"}

Patches == {[kind |-> "none", away |-> 0, home |-> 0]}
           \cup {[kind |-> k, away |-> c[1], home |-> c[2]] : k \in PatchKinds, c \in PatchCells}

\* grid with the entry (away, home) spoilt: NaN, 0, or absent (the row ends
\* before it).
Patched(grid, p) ==
    CASE p.kind = "none" -> grid
      [] p.kind = "NaN" -> [grid EXCEPT ![p.away + 1][p.home + 1] = NaN]
      [] p.kind = "zero" -> [grid EXCEPT ![p.away + 1][p.home + 1] = Num(0)]
      [] p.kind = "undefined" -> [grid EXCEPT ![p.away + 1] = SubSeq(grid[p.away + 1], 1, p.home)]

MakeOdds(finalResultOdds, anyQuarterOdds) ==
    [homeTeam |-> <<"K", "C">>, awayTeam |-> <<"S", "F">>,
     finalResultOdds |-> finalResultOdds, anyQuarterOdds |-> anyQuarterOdds]

CleanOdds == {MakeOdds(VariedFinal, VariedAnyQuarter),
              MakeOdds(UniformGrid, UniformGrid),
              MakeOdds(VariedFinal, UniformGrid)}

PatchedOdds == {MakeOdds(Patched(VariedFinal, p), Patched(VariedAnyQuarter, q)) :
                    p \in Patches, q \in Patches}

Weights == { <<Rat(4, 5), Rat(1, 5)>>, <<Rat(1, 5), Rat(4, 5)>>,
             <<RatOne, RatZero>>, <<RatZero, RatOne>>, <<RatZero, RatZero>>,
             <<RatOne, RatOne>>, <<Rat(1, 2), RatInt(3)>>,
             <<RatOne, RatInt(-1)>>, <<RatInt(-1), Rat(1, 2)>> }

AnalysisCall(board, odds, squarePrice, w) ==
    [fn |-> "computeSquaresAnalysis", board |-> board, odds |-> odds,
     squarePrice |-> squarePrice, finalResultWeight |-> w[1], anyQuarterWeight |-> w[2]]

AnalysisInputs ==
    {AnalysisCall(b, o, RatInt(p), w) :
        b \in ValidBoards, o \in CleanOdds, p \in 0 .. MaxPrice, w \in Weights}
    \cup {AnalysisCall(b, o, RatInt(3), <<Rat(4, 5), Rat(1, 5)>>) :
        b \in {MakeBoard(defaultDigits, defaultDigits, SampleOwners),
               MakeBoard(ScrambledDigits, ReversedDigits, SampleOwners)},
        o \in PatchedOdds}
    \cup {AnalysisCall(MakeBoard(ScrambledDigits, ReversedDigits, PaddedOwners), o, RatInt(3),
                        <<Rat(4, 5), Rat(1, 5)>>) : o \in CleanOdds}
    \cup {AnalysisCall(b, o, RatInt(3), <<Rat(4, 5), Rat(1, 5)>>) :
        b \in InvalidBoards,
        o \in {MakeOdds(VariedFinal, VariedAnyQuarter),
               MakeOdds(Patched(VariedFinal, [kind |-> "NaN", away |-> 0, home |-> 0]),
                        VariedAnyQuarter)}}

ProbabilityInputs ==
    {[fn |-> "americanToRawProbability", american |-> a] : a \in -MaxOdds .. MaxOdds}

----------------------------------------------------------------------------
(* Pasted texts.  A sheet is a sequence of rows of cells; a paste is the    *)
(* sheet written out with a delimiter between cells and a line break        *)
(* after each row.                                                           *)

RECURSIVE JoinFrom(_, _, _)
JoinFrom(parts, sep, i) ==
    IF i > Len(parts) THEN <<>>
    ELSE IF i = Len(parts) THEN parts[i]
    ELSE parts[i] \o sep \o JoinFrom(parts, sep, i + 1)

Join(parts, sep) == JoinFrom(parts, sep, 1)

Render(sheet, delimiter, lineBreak) ==
    Join(ArrayOf([r \in 1 .. Len(sheet) |-> Join(sheet[r], <<delimiter>>)]), lineBreak) \o lineBreak

Str_Steve == <<"S", "t", "e", "v", "e">>

Str_Stephen == <<"s", "t", "e", "p", "h", "e", "n", " ", "K", ".">>

Str_AlSpaced == <<"A", "l", " ", " ", "B">>

Str_AlNbsp == <<"A", "l", "NBSP", "B">>

Str_AlFwComma == <<"A", "l", "FWCOMMA", "B", "o">>

Str_Fenced == <<"BACKTICK", "BACKTICK", "BACKTICK", "A", "l">>

Str_Chiefs == <<"C", "h", "i", "e", "f", "s">>

Str_Eagles == <<"E", "a", "g", "l", "e", "s">>

Str_Birds == <<"B", "i", "r", "d", "s">>

\* The digit d as a cell.
DigitCell(d) == <<DecimalDigits[d + 1]>>

\* Ten owner rows of ten names.  Grid 1 is fully claimed with plain and
\* padded names; grid 2 adds the name variants; grid 3 leaves cells
\* unclaimed, the last cell of row 4 among them; grid 4 has names with the
\* characters the cleaning rewrites, names that are digits, and a row 6 that
\* reads as a digit permutation; grid 5 is sparsely claimed, the last cell
\* of every row included.
OwnerGrid(g) ==
    [r \in 1 .. 10 |-> [c \in 1 .. 10 |->
        LET k == 10 * (r - 1) + (c - 1)
        IN  CASE g = 1 -> IF k % 3 = 0 THEN Str_Al ELSE IF k % 3 = 1 THEN Str_Bo ELSE Str_CyPadded
              [] g = 2 -> IF k % 7 = 0 THEN Str_Steve
                          ELSE IF k % 11 = 0 THEN Str_Stephen
                          ELSE IF k % 5 = 0 THEN Str_AlSpaced
                          ELSE Str_Bo
              [] g = 3 -> IF k % 4 = 0 \/ k = 39 THEN <<>>
                          ELSE IF k % 4 = 1 THEN Str_Al ELSE Str_Bo
              [] g = 4 -> IF r = 6 THEN DigitCell(ScrambledDigits[c])
                          ELSE IF k % 7 = 0 THEN Str_AlNbsp
                          ELSE IF k % 11 = 0 THEN Str_AlFwComma
                          ELSE IF k % 13 = 0 THEN Str_Fenced
                          ELSE IF k % 5 = 0 THEN DigitCell(c - 1)
                          ELSE Str_Al
              [] g = 5 -> IF c = 10 THEN Str_Bo
                          ELSE IF c = 1 /\ r % 2 = 1 THEN Str_Al
                          ELSE IF c = 4 /\ r = 8 THEN Str_Steve
                          ELSE <<>>]]

OwnerGrids == 1 .. 5

HeaderKinds == {"default", "scrambled", "padded", "repeat", "wide", "none"}

ValidHeaderKinds == {"default", "scrambled", "padded"}

\* The digits a header of a valid kind shows.
HeaderDigits(kind) == IF kind = "default" THEN defaultDigits ELSE ScrambledDigits

\* The cells of the header row: the digits, zero-padded, with a repeated
\* digit, or eleven cells whose first ten repeat a digit.
HeaderCells(kind) ==
    CASE kind = "default" -> [c \in 1 .. 10 |-> DigitCell(defaultDigits[c])]
      [] kind = "scrambled" -> [c \in 1 .. 10 |-> DigitCell(ScrambledDigits[c])]
      [] kind = "padded" -> [c \in 1 .. 10 |-> <<"0">> \o DigitCell(ScrambledDigits[c])]
      [] kind = "repeat" -> [c \in 1 .. 10 |-> DigitCell(IF c = 10 THEN 0 ELSE c - 1)]
      [] kind = "wide" -> <<DigitCell(1)>> \o [c \in 1 .. 10 |-> DigitCell(defaultDigits[c])]

AwayKinds == {"reversed", "letters", "repeat", "mixed", "padded"}

\* The cell left of owner row r.
AwayCell(kind, r) ==
    CASE kind = "reversed" -> DigitCell((10 - r) % 10)
      [] kind = "letters" -> <<"r">>
      [] kind = "repeat" -> DigitCell(IF r = 10 THEN 0 ELSE (r - 1) % 10)
      [] kind = "mixed" -> IF r % 2 = 0 THEN <<>> ELSE DigitCell((r - 1) % 10)
      [] kind = "padded" -> <<"0">> \o DigitCell((r + 2) % 10)

ExtraKinds ==
    {"none", "blankline", "short", "emptyslice", "crlf", "padding", "secondheader", "labelrow",
     "digitlabels"}

Blanks(n) == [i \in 1 .. n |-> <<>>]

\* The cells left of the owner slice of owner row r.
LeftCells(layout, r) ==
    CASE layout.startCol = 0 -> <<>>
      [] layout.startCol = 1 -> <<AwayCell(layout.away, r)>>
      [] layout.startCol = 2 ->
            <<IF r # 1 THEN <<>> ELSE IF layout.extra = "digitlabels" THEN <<"0", "7">> ELSE Str_Eagles,
              AwayCell(layout.away, r)>>

\* Owner row r of the sheet; rows beyond the tenth repeat the grid.
OwnerRow(layout, r) ==
    LeftCells(layout, r) \o OwnerGrid(layout.owners)[((r - 1) % 10) + 1]

\* The row, if any, the layout puts after owner row r.
ExtraRowsAfter(layout, r) ==
    CASE layout.extra = "blankline" /\ r = 3 -> << <<>> >>
      [] layout.extra = "short" /\ r = 2 -> << Blanks(layout.startCol) \o <<Str_Al, Str_Bo>> >>
      [] layout.extra = "emptyslice" /\ r = 5 ->
            << Blanks(layout.startCol) \o Blanks(10) \o <<Str_Al>> >>
      [] layout.extra = "secondheader" /\ r = 5 ->
            << Blanks(layout.startCol) \o HeaderCells("default") >>
      [] OTHER -> <<>>

RECURSIVE OwnerRowsFrom(_, _)
OwnerRowsFrom(layout, r) ==
    IF r > layout.count THEN <<>>
    ELSE <<OwnerRow(layout, r)>> \o ExtraRowsAfter(layout, r) \o OwnerRowsFrom(layout, r + 1)

SheetOf(layout) ==
    (IF layout.title
     THEN << Blanks(layout.startCol)
             \o <<IF layout.extra = "digitlabels" THEN DigitCell(7) ELSE Str_Chiefs>> >>
     ELSE <<>>)
    \o (IF layout.header # "none"
        THEN << Blanks(layout.startCol) \o HeaderCells(layout.header) >>
        ELSE <<>>)
    \o (IF layout.extra = "labelrow" THEN << <<Str_Birds>> >> ELSE <<>>)
    \o OwnerRowsFrom(layout, 1)

TextOf(layout) ==
    LET body == Render(SheetOf(layout), layout.delimiter,
                       IF layout.extra = "crlf" THEN <<"\r", "\n">> ELSE <<"\n">>)
    IN  IF layout.extra = "padding" THEN <<"\n", " ", "\n">> \o body \o <<" ", "\n", "\n">>
        ELSE body

\* The number of owner rows a layout has beyond or short of ten.
MaxSpare == 1

BaseLayout ==
    [startCol |-> 2, title |-> TRUE, header |-> "scrambled", away |-> "reversed",
     owners |-> 1, count |-> 10, extra |-> "none", delimiter |-> "\t"]

Layouts ==
    {[BaseLayout EXCEPT !.startCol = s, !.title = t, !.header = h] :
        s \in 0 .. 2, t \in BOOLEAN, h \in HeaderKinds}
    \cup {[BaseLayout EXCEPT !.startCol = s, !.away = a, !.count = n] :
        s \in 1 .. 2, a \in AwayKinds, n \in 10 - MaxSpare .. 10 + MaxSpare}
    \cup {[BaseLayout EXCEPT !.owners = g, !.extra = e, !.header = h, !.count = n] :
        g \in OwnerGrids, e \in ExtraKinds, h \in {"scrambled", "none"}, n \in {10, 11}}
    \cup {[BaseLayout EXCEPT !.startCol = 0, !.title = FALSE, !.header = h, !.owners = g,
                             !.count = n, !.extra = e] :
        h \in HeaderKinds, g \in OwnerGrids, n \in {1, 9, 10},
        e \in {"none", "crlf", "blankline"}}
    \cup {[BaseLayout EXCEPT !.delimiter = d, !.owners = g, !.startCol = s] :
        d \in {",", ";"}, g \in OwnerGrids, s \in {0, 2}}

ParseInputs ==
    {[fn |-> "parseSquaresFromPastedText", layout |-> l, text |-> TextOf(l)] : l \in Layouts}

\* The most lines and the most cells a line has in the texts given to
\* parseRows, and the highest price typed into the dashboard.
MaxLines == 4

MaxWidth == 3

MaxTypedPrice == 1

HoleKinds == {"none", "last", "odd", "quoted"}

\* Cell j of line i of a small sheet: its label, or empty.
LabelCell(i, j, width, holes) ==
    IF holes = "last" /\ j = width /\ i % 2 = 0 THEN <<>>
    ELSE IF holes = "odd" /\ (i + j) % 2 = 1 THEN <<>>
    ELSE IF holes = "quoted" /\ j = 1 THEN <<LowerLetters[i], ",", DecimalDigits[j + 1]>>
    ELSE <<LowerLetters[i], DecimalDigits[j + 1]>>

SmallSheet(widths, holes) ==
    [i \in 1 .. Len(widths) |-> [j \in 1 .. widths[i] |-> LabelCell(i, j, widths[i], holes)]]

SmallSheets ==
    {SmallSheet(widths, holes) :
        widths \in UNION {[1 .. n -> 1 .. MaxWidth] : n \in 1 .. MaxLines},
        holes \in HoleKinds}

\* A cell as a spreadsheet writes it to a delimited file: in double quotes
\* when it holds a comma.
Quoted(cell) == IF "," \in Range(cell) THEN <<"\"">> \o cell \o <<"\"">> ELSE cell

QuotedSheet(sheet) ==
    [i \in 1 .. Len(sheet) |-> [j \in 1 .. Len(sheet[i]) |-> Quoted(sheet[i][j])]]

\* The most lines of a text whose lines mix the delimiters.
MaxMixedLines == 3

\* Lines with a comma, a semicolon, both, a tab between cells, a tab only at
\* the end, no delimiter, and a comma in double quotes beside a semicolon.
MixedLineKinds ==
    { <<"a", ",", "b">>,
      <<"c", ";", "d">>,
      <<"e", ",", "f", ";", "g">>,
      <<"h", "\t", "i">>,
      <<"j", ",", "k", "\t">>,
      <<"m">>,
      <<"\"", "n", ",", "o", "\"", ";", "p">> }

RECURSIVE JoinLines(_)
JoinLines(lines) ==
    IF Len(lines) = 1 THEN lines[1] ELSE lines[1] \o <<"\n">> \o JoinLines(Tail(lines))

MixedTexts ==
    {JoinLines(lines) : lines \in UNION {[1 .. n -> MixedLineKinds] : n \in 1 .. MaxMixedLines}}

RowsInputs ==
    {[fn |-> "parseRows", sheet |-> sheet, delimiter |-> delimiter,
      text |-> Render(QuotedSheet(sheet), delimiter, <<"\n">>)] :
        sheet \in SmallSheets, delimiter \in {",", ";", "\t"}}
    \cup {[fn |-> "parseRows", sheet |-> <<>>, delimiter |-> "mixed", text |-> t] :
            t \in MixedTexts}

----------------------------------------------------------------------------
(* The calls under test: the arguments are drawn in the initial state and   *)
(* one step applies the function to them.                                  *)

\* The component as useState initialises it (lines 57-65).
Mounted ==
    dashboard = [odds |-> Null, oddsError |-> "", loadingOdds |-> FALSE,
                 pasteText |-> <<>>, board |-> Null, boardError |-> "",
                 squarePrice |-> RatInt(3), showSetup |-> TRUE]

CallAmericanToRawProbability ==
    /\ pc = "call"
    /\ arg.fn = "americanToRawProbability"
    /\ ret' = americanToRawProbability(arg.american)
    /\ pc' = "done"
    /\ UNCHANGED <<arg, dashboard>>

CallComputeSquaresAnalysis ==
    /\ pc = "call"
    /\ arg.fn = "computeSquaresAnalysis"
    /\ ret' = computeSquaresAnalysis(arg.board, arg.odds, arg.squarePrice,
                                     arg.finalResultWeight, arg.anyQuarterWeight)
    /\ pc' = "done"
    /\ UNCHANGED <<arg, dashboard>>

CallParseRows ==
    /\ pc = "call"
    /\ arg.fn = "parseRows"
    /\ ret' = parseRows(arg.text)
    /\ pc' = "done"
    /\ UNCHANGED <<arg, dashboard>>

CallParseSquaresFromPastedText ==
    /\ pc = "call"
    /\ arg.fn = "parseSquaresFromPastedText"
    /\ ret' = ParseWithLocals(arg.text)
    /\ pc' = "done"
    /\ UNCHANGED <<arg, dashboard>>

InitProbability == pc = "call" /\ arg \in ProbabilityInputs /\ ret = Null /\ Mounted

SpecProbability == InitProbability /\ [][CallAmericanToRawProbability]_vars

InitAnalysis == pc = "call" /\ arg \in AnalysisInputs /\ ret = Null /\ Mounted

SpecAnalysis == InitAnalysis /\ [][CallComputeSquaresAnalysis]_vars

InitRows == pc = "call" /\ arg \in RowsInputs /\ ret = Null /\ Mounted

SpecRows == InitRows /\ [][CallParseRows]_vars

InitParse == pc = "call" /\ arg \in ParseInputs /\ ret = Null /\ Mounted

SpecParse == InitParse /\ [][CallParseSquaresFromPastedText]_vars

(* Repeated calls of computeSquaresAnalysis on the same board and odds      *)
(* objects, with other calls on the same board in between.                  *)

MaxBetween == 2

RepeatBoards ==
    ValidBoards
    \cup {MakeBoard(ScrambledDigits, ReversedDigits, PaddedOwners),
          MakeBoard(<<0, 0, 2, 3, 4, 5, 6, 7, 8, 9>>, ScrambledDigits, SampleOwners),
          MakeBoard(defaultDigits, defaultDigits, SubSeq(SampleOwners, 1, 9))}

RepeatOdds ==
    CleanOdds
    \cup {MakeOdds(Patched(VariedFinal, [kind |-> "zero", away |-> 3, home |-> 7]),
                   VariedAnyQuarter)}

RepeatInputs ==
    {[fn |-> "computeSquaresAnalysis, repeated", board |-> b, odds |-> o,
      squarePrice |-> RatInt(3), finalResultWeight |-> Rat(4, 5), anyQuarterWeight |-> Rat(1, 5),
      given |-> [board |-> b, odds |-> o], between |-> 0] :
        b \in RepeatBoards, o \in RepeatOdds}

AfterAnalysis_SortsAxis(board, odds) ==
    [board |-> [board EXCEPT !.homeDigits = defaultDigits], odds |-> odds]

\* The caller's board and odds objects after a call: the function assigns
\* only to the arrays, the map and the objects it creates itself (lines
\* 717-719, 743-745, 755-757, 771-778, 784) and sorts only its own arrays
\* (lines 792-794).
AfterAnalysis(board, odds) == [board |-> board, odds |-> odds]

\* The first call on the objects.
CallFirst ==
    /\ pc = "call"
    /\ arg.fn = "computeSquaresAnalysis, repeated"
    /\ ret' = <<computeSquaresAnalysis(arg.board, arg.odds, arg.squarePrice,
                                       arg.finalResultWeight, arg.anyQuarterWeight)>>
    /\ arg' = [arg EXCEPT !.board = AfterAnalysis(arg.board, arg.odds).board,
                          !.odds = AfterAnalysis(arg.board, arg.odds).odds]
    /\ pc' = "between"
    /\ UNCHANGED dashboard

\* Another call on the same board with odds of its own; its result is
\* dropped, and what it leaves of the board is kept.
CallBetween ==
    /\ pc = "between"
    /\ arg.between < MaxBetween
    /\ \E o \in RepeatOdds :
          arg' = [arg EXCEPT !.board = AfterAnalysis(arg.board, o).board,
                            !.between = arg.between + 1]
    /\ UNCHANGED <<pc, ret, dashboard>>

\* The second call on the objects.
CallSecond ==
    /\ pc = "between"
    /\ ret' = Append(ret, computeSquaresAnalysis(arg.board, arg.odds, arg.squarePrice,
                                                 arg.finalResultWeight, arg.anyQuarterWeight))
    /\ arg' = [arg EXCEPT !.board = AfterAnalysis(arg.board, arg.odds).board,
                          !.odds = AfterAnalysis(arg.board, arg.odds).odds]
    /\ pc' = "done"
    /\ UNCHANGED dashboard

InitRepeat == pc = "call" /\ arg \in RepeatInputs /\ ret = <<>> /\ Mounted

NextRepeat == CallFirst \/ CallBetween \/ CallSecond

SpecRepeat == InitRepeat /\ [][NextRepeat]_vars

(* Calls of normalizeOwnerName on cells made from a key of lowercase       *)
(* letters: "steven" with some letters deleted, replaced by x or preceded  *)
(* by an x, "stev" followed by x's, and "seven" preceded by x's, each      *)
(* written plainly, capitalised, or between blanks with a full stop, a     *)
(* double blank and a digit; and cells without a letter.                   *)

\* The most letters of "steven" edited, and the most x's added to an affix.
MaxEdits == 3

MaxPad == 5

RECURSIVE EditedFrom(_, _, _)
EditedFrom(kind, at, i) ==
    IF i > Len(Key_steven) THEN <<>>
    ELSE (IF i \notin at THEN <<Key_steven[i]>>
          ELSE IF kind = "delete" THEN <<>>
          ELSE IF kind = "replace" THEN <<"x">>
          ELSE <<"x", Key_steven[i]>>)
         \o EditedFrom(kind, at, i + 1)

Xs(n) == [i \in 1 .. n |-> "x"]

NameKeys ==
    {EditedFrom(kind, at, 1) :
        kind \in {"delete", "replace", "insert"},
        at \in {S \in SUBSET (1 .. Len(Key_steven)) : Cardinality(S) <= MaxEdits}}
    \cup {<<"s", "t", "e", "v">> \o Xs(n) : n \in 0 .. MaxPad}
    \cup {Xs(n) \o <<"s", "e", "v", "e", "n">> : n \in 0 .. MaxPad}
    \cup stevenVariants

NameStyles == {"plain", "capital", "dressed"}

CellOfKey(key, style) ==
    IF key = <<>> \/ style = "plain" THEN key
    ELSE IF style = "capital"
    THEN <<UpperLetters[IndexIn(LowerLetters, key[1])]>> \o Tail(key)
    ELSE <<" ">> \o SubSeq(key, 1, 2) \o <<".", " ", " ">> \o SubSeq(key, 3, Len(key))
         \o <<" ", "7", " ">>

NameInputs ==
    {[fn |-> "normalizeOwnerName", key |-> key, value |-> CellOfKey(key, style)] :
        key \in NameKeys, style \in NameStyles}
    \cup {[fn |-> "normalizeOwnerName", key |-> <<>>, value |-> v] :
            v \in {<<>>, <<" ">>, <<"7">>, <<" ", "0", "7", " ", " ", "#", "1">>}}

CallNormalizeOwnerName ==
    /\ pc = "call"
    /\ arg.fn = "normalizeOwnerName"
    /\ ret' = normalizeOwnerName(arg.value)
    /\ pc' = "done"
    /\ UNCHANGED <<arg, dashboard>>

InitName == pc = "call" /\ arg \in NameInputs /\ ret = Null /\ Mounted

SpecName == InitName /\ [][CallNormalizeOwnerName]_vars

(* Calls of parseSquaresFromPastedText on a text and on the same text      *)
(* between the two marks of a wrapper pair, as when a paste is quoted or   *)
(* fenced; the opening mark stands on the first line of the text or on a   *)
(* line of its own.                                                        *)

WrapLayouts ==
    {[BaseLayout EXCEPT !.startCol = s, !.title = t, !.header = h, !.owners = g] :
        s \in 0 .. 2, t \in BOOLEAN, h \in {"scrambled", "none"}, g \in {1, 5}}
    \cup {[BaseLayout EXCEPT !.delimiter = d, !.startCol = s, !.count = n] :
        d \in {",", ";"}, s \in {0, 2}, n \in {8, 10}}

WrapInputs ==
    {[fn |-> "parseSquaresFromPastedText, wrapped", layout |-> l, wrapper |-> w,
      text |-> lead \o TextOf(l)] :
        l \in WrapLayouts, w \in DOMAIN Wrappers, lead \in {<<>>, <<"\n">>}}

\* The call on the text as it is.
CallOnText ==
    /\ pc = "call"
    /\ arg.fn = "parseSquaresFromPastedText, wrapped"
    /\ ret' = [plain |-> ParseWithLocals(arg.text)]
    /\ pc' = "wrapped"
    /\ UNCHANGED <<arg, dashboard>>

\* The call on the text between the marks of the wrapper.
CallOnWrapped ==
    /\ pc = "wrapped"
    /\ arg.fn = "parseSquaresFromPastedText, wrapped"
    /\ ret' = [plain |-> ret.plain,
               wrapped |-> ParseWithLocals(Wrappers[arg.wrapper][1] \o arg.text
                                           \o Wrappers[arg.wrapper][2])]
    /\ pc' = "done"
    /\ UNCHANGED <<arg, dashboard>>

InitWrap == pc = "call" /\ arg \in WrapInputs /\ ret = Null /\ Mounted

NextWrap == CallOnText \/ CallOnWrapped

SpecWrap == InitWrap /\ [][NextWrap]_vars

----------------------------------------------------------------------------
(* The dashboard: the handlers of SquaresDashboard, each one step.  A load  *)
(* of the odds is two steps, the request and its outcome.                   *)

\* What GET /api/draftkings-squares can answer: odds with the teams' names,
\* or with the names parseMarket falls back to.
OddsPayloads ==
    {MakeOdds(VariedFinal, VariedAnyQuarter),
     [MakeOdds(UniformGrid, VariedAnyQuarter) EXCEPT
         !.homeTeam = HomeTeamPlaceholder, !.awayTeam = AwayTeamPlaceholder]}

OddsFailures == {"DraftKings API request failed (500)"}

\* The texts the user pastes: a sheet with both team labels, a sheet with
\* the home label only, a bare grid under its header, and a sheet one owner
\* row short.
Pastes ==
    {TextOf([BaseLayout EXCEPT !.owners = 5]),
     TextOf([BaseLayout EXCEPT !.startCol = 1, !.owners = 5]),
     TextOf([BaseLayout EXCEPT !.startCol = 0, !.title = FALSE, !.owners = 5]),
     TextOf([BaseLayout EXCEPT !.count = 9])}

\* Lines 76-78: the effect of lines 108-110 starts a load on mount, and the
\* Refresh button (line 315) is disabled while a load is running.
LoadOdds ==
    /\ pc = "idle"
    /\ ~dashboard.loadingOdds
    /\ dashboard' = [dashboard EXCEPT !.loadingOdds = TRUE, !.oddsError = ""]
    /\ UNCHANGED <<pc, arg, ret>>

Reconciled_Overwrites(currentBoard, payload) ==
    IF currentBoard = Null THEN currentBoard
    ELSE [currentBoard EXCEPT !.homeTeam = payload.homeTeam, !.awayTeam = payload.awayTeam]

\* setBoard((currentBoard) => ...), lines 89-99.
Reconciled(currentBoard, payload) ==
    IF currentBoard = Null THEN currentBoard
    ELSE [currentBoard EXCEPT
            !.homeTeam = IF currentBoard.homeTeam = HomeTeamPlaceholder
                         THEN payload.homeTeam ELSE currentBoard.homeTeam,
            !.awayTeam = IF currentBoard.awayTeam = AwayTeamPlaceholder
                         THEN payload.awayTeam ELSE currentBoard.awayTeam]

\* Lines 80-99 and 103-105: the request is answered with odds.
LoadOddsSucceeds ==
    /\ pc = "idle"
    /\ dashboard.loadingOdds
    /\ \E payload \in OddsPayloads :
          dashboard' = [dashboard EXCEPT !.odds = payload,
                                         !.board = Reconciled(dashboard.board, payload),
                                         !.loadingOdds = FALSE]
    /\ UNCHANGED <<pc, arg, ret>>

\* Lines 84-86 and 100-105: the request fails or is answered with an error.
LoadOddsFails ==
    /\ pc = "idle"
    /\ dashboard.loadingOdds
    /\ \E message \in OddsFailures :
          dashboard' = [dashboard EXCEPT !.oddsError = message, !.loadingOdds = FALSE]
    /\ UNCHANGED <<pc, arg, ret>>

\* onChange of the textarea (line 386), shown while the setup is open.
SetPasteText ==
    /\ pc = "idle"
    /\ dashboard.showSetup
    /\ \E text \in Pastes : dashboard' = [dashboard EXCEPT !.pasteText = text]
    /\ UNCHANGED <<pc, arg, ret>>

\* onChange of the price input (line 396): Number(event.target.value) || 0.
SetSquarePrice ==
    /\ pc = "idle"
    /\ dashboard.showSetup
    /\ \E price \in 0 .. MaxTypedPrice :
          dashboard' = [dashboard EXCEPT !.squarePrice = RatInt(price)]
    /\ UNCHANGED <<pc, arg, ret>>

\* Lines 116-121: the parsed board with its labels reconciled with the odds.
Labelled(parsed, currentOdds) ==
    [parsed EXCEPT
        !.homeTeam = IF parsed.homeTeam = HomeTeamPlaceholder /\ currentOdds # Null
                     THEN currentOdds.homeTeam ELSE parsed.homeTeam,
        !.awayTeam = IF parsed.awayTeam = AwayTeamPlaceholder /\ currentOdds # Null
                     THEN currentOdds.awayTeam ELSE parsed.awayTeam]

\* Lines 113-125 on the outcome of the parse.
Parsed(outcome) ==
    IF outcome.threw
    THEN [dashboard EXCEPT !.boardError = outcome.error]
    ELSE [dashboard EXCEPT !.boardError = "",
                           !.board = Labelled(outcome.value, dashboard.odds),
                           !.showSetup = FALSE]

\* onClick of "Calculate statistics" (line 400).
ParseFromText ==
    /\ pc = "idle"
    /\ dashboard.showSetup
    /\ dashboard' = Parsed(parseSquaresFromPastedText(dashboard.pasteText))
    /\ UNCHANGED <<pc, arg, ret>>

\* onClick of the setup toggle (line 368).
ToggleSetup ==
    /\ pc = "idle"
    /\ dashboard' = [dashboard EXCEPT !.showSetup = ~dashboard.showSetup]
    /\ UNCHANGED <<pc, arg, ret>>

\* Lines 133-143 on the outcome of computeSquaresAnalysis.
Memo(outcome) ==
    IF outcome.threw
    THEN [analysis |-> Null, error |-> outcome.error]
    ELSE [analysis |-> outcome.value, error |-> ""]

\* The useMemo of lines 128-144: recomputed from board, odds and price.
analysisResult ==
    IF dashboard.board = Null \/ dashboard.odds = Null
    THEN [analysis |-> Null, error |-> ""]
    ELSE Memo(computeSquaresAnalysis(dashboard.board, dashboard.odds, dashboard.squarePrice,
                                     Rat(1, 5), Rat(4, 5)))

Init == Mounted /\ pc = "idle" /\ arg = Null /\ ret = Null

Next ==
    \/ LoadOdds
    \/ LoadOddsSucceeds
    \/ LoadOddsFails
    \/ SetPasteText
    \/ SetSquarePrice
    \/ ParseFromText
    \/ ToggleSetup

Spec == Init /\ [][Next]_vars

----------------------------------------------------------------------------
(* Properties of americanToRawProbability and computeSquaresAnalysis.      *)

ProbabilityDone == pc = "done" /\ arg.fn = "americanToRawProbability"

AnalysisDone == pc = "done" /\ arg.fn = "computeSquaresAnalysis"

BoardIsValid(board) ==
    /\ isValidDigitArray(board.homeDigits)
    /\ isValidDigitArray(board.awayDigits)
    /\ Len(board.owners) = 10
    /\ \A r \in DOMAIN board.owners : Len(board.owners[r]) = 10

DigitPairs == DIGITS \X DIGITS

\* The digit pairs whose entry is absent or not finite in either matrix.
MissingPairs(odds) ==
    {p \in DigitPairs : \/ ~NumberIsFinite(GridAt(odds.finalResultOdds, p[1], p[2]))
                        \/ ~NumberIsFinite(GridAt(odds.anyQuarterOdds, p[1], p[2]))}

\* The digit pairs with a zero quotation in either matrix.
ZeroPairs(odds) ==
    {p \in DigitPairs : \/ GridAt(odds.finalResultOdds, p[1], p[2]) = Num(0)
                        \/ GridAt(odds.anyQuarterOdds, p[1], p[2]) = Num(0)}

OddsAreValid(odds) == MissingPairs(odds) = {} /\ ZeroPairs(odds) = {}

DegenerateMassError == "Unable to compute probabilities from odds."

\* C1: for every non-zero integer quotation a, americanToRawProbability(a) is
\* 100 / (a + 100) when a > 0 and |a| / (|a| + 100) when a < 0, and lies
\* strictly between 0 and 1; +150 gives 2/5 and -150 gives 3/5.
C1_RawProbabilityFormula ==
    (ProbabilityDone /\ arg.american # 0) =>
        /\ ~ret.threw
        /\ arg.american > 0 =>
              ret.value[1] * (arg.american + 100) = 100 * ret.value[2]
        /\ arg.american < 0 =>
              ret.value[1] * (Abs(arg.american) + 100) = Abs(arg.american) * ret.value[2]
        /\ RatLess(RatZero, ret.value) /\ RatLess(ret.value, RatOne)
        /\ arg.american = 150 => ret.value = <<2, 5>>
        /\ arg.american = -150 => ret.value = <<3, 5>>

C1_Witness ==
    ProbabilityDone /\ arg.american = -150 /\ ~ret.threw /\ ret.value = <<3, 5>>

\* C2: whenever computeSquaresAnalysis returns a result (valid board, all
\* odds finite and non-zero), the 100 values of combinedProbability sum to
\* exactly 1 and sumEv = totalPot = squarePrice * 100, for every pair of
\* digit permutations on the board's axes.
C2_ProbabilitiesSumToOne ==
    (AnalysisDone /\ ~ret.threw) =>
        /\ BoardIsValid(arg.board) /\ OddsAreValid(arg.odds)
        /\ SumGrid(ret.value.combinedProbability) = RatOne
        /\ ret.value.totalPot = RatMul(arg.squarePrice, RatInt(100))
        /\ ret.value.sumEv = ret.value.totalPot

C2_Witness ==
    /\ AnalysisDone /\ ~ret.threw
    /\ arg.board.homeDigits = ScrambledDigits /\ arg.board.awayDigits = ReversedDigits
    /\ arg.odds.finalResultOdds = VariedFinal /\ arg.odds.anyQuarterOdds = VariedAnyQuarter
    /\ arg.squarePrice = RatInt(3) /\ ret.value.sumEv = RatInt(300)
    /\ ret.value.combinedProbability[1][1] # ret.value.combinedProbability[1][2]

NonNegativeWeights ==
    RatLeq(RatZero, arg.finalResultWeight) /\ RatLeq(RatZero, arg.anyQuarterWeight)

\* C4 as stated: with all 100 entries of both matrices finite and non-zero
\* and both blend weights non-negative, the call never fails with the
\* degenerate-probability-mass error.
C4_AsStated ==
    (AnalysisDone /\ BoardIsValid(arg.board) /\ OddsAreValid(arg.odds) /\ NonNegativeWeights) =>
        ~(ret.threw /\ ret.error = DegenerateMassError)

\* C4 amended: with all 100 entries of both matrices finite and non-zero,
\* both blend weights non-negative and at least one of them positive, the
\* normalization constant is strictly positive and the call returns a
\* result; with both weights zero it fails with the degenerate-mass error.
C4_PositiveMass ==
    (AnalysisDone /\ BoardIsValid(arg.board) /\ OddsAreValid(arg.odds) /\ NonNegativeWeights) =>
        IF arg.finalResultWeight = RatZero /\ arg.anyQuarterWeight = RatZero
        THEN ret = Thrown(DegenerateMassError)
        ELSE ~ret.threw /\ RatLess(RatZero, ret.value.totalCombinedRaw)

C4_Witness ==
    /\ AnalysisDone /\ BoardIsValid(arg.board) /\ OddsAreValid(arg.odds)
    /\ arg.finalResultWeight = RatZero /\ arg.anyQuarterWeight = RatOne
    /\ ~ret.threw /\ RatLess(RatZero, ret.value.totalCombinedRaw)

----------------------------------------------------------------------------
(* Properties of the dashboard.                                            *)

\* C3: in every analysis the dashboard computes, the value of a digit pair
\* before normalization is 4/5 of its Final Result probability plus 1/5 of
\* its Any Quarter probability.
C3_FinalResultWeighsFourFifths ==
    analysisResult.analysis # Null =>
        \A a \in 1 .. 10, h \in 1 .. 10 :
            analysisResult.analysis.combinedRaw[a][h]
                = RatAdd(RatMul(Rat(4, 5), analysisResult.analysis.rawFinal[a][h]),
                         RatMul(Rat(1, 5), analysisResult.analysis.rawAnyQuarter[a][h]))

----------------------------------------------------------------------------
(* Properties of parseSquaresFromPastedText and parseRows.                 *)

ParseDone == pc = "done" /\ arg.fn = "parseSquaresFromPastedText"

RowsDone == pc = "done" /\ arg.fn = "parseRows"

IncompleteGridError == "Could not parse a full 10x10 owner grid from pasted text."

\* digits holds every digit 0..9 exactly once.
IsPermutation(digits) ==
    /\ Len(digits) = 10
    /\ \A d \in DIGITS : Cardinality({i \in 1 .. 10 : digits[i] = d}) = 1

\* A header row of the 10 distinct digits followed by 10 owner rows of 10
\* cells, tab-separated, each line ended by LF or CRLF.
WellFormedPaste(layout) ==
    /\ layout.delimiter = "\t" /\ layout.startCol = 0 /\ ~layout.title
    /\ layout.header \in ValidHeaderKinds
    /\ layout.count = 10 /\ layout.extra \in {"none", "crlf"}

\* The key of the name normalizer matches one of its three rules.
IsStevenKey(key) ==
    \/ key \in stevenVariants
    \/ /\ Len(key) <= 8
       /\ \/ (Len(key) >= 4 /\ SubSeq(key, 1, 4) = <<"s", "t", "e", "v">>)
          \/ (Len(key) >= 5 /\ SubSeq(key, Len(key) - 4, Len(key)) = <<"s", "e", "v", "e", "n">>)
    \/ Len(key) >= 5 /\ Len(key) <= 8 /\ editDistance(key, Key_steven) <= 2

\* The pasted cell after the cleaning of the text (no-break space to space,
\* fullwidth comma to comma, CR and triple backticks removed), trimmed and
\* with its white space collapsed.
CleanedCell(cell) == normalizeCell(CleanText(cell))

\* C5 as stated: a board extracted from a well-formed tab-separated paste
\* has the header digits in order as homeDigits and every ownership cell
\* equal to the pasted cell up to trimming and white-space collapsing.
C5_AsStated ==
    (ParseDone /\ WellFormedPaste(arg.layout) /\ ~ret.threw) =>
        /\ ret.value.homeDigits = HeaderDigits(arg.layout.header)
        /\ \A r \in 1 .. 10, c \in 1 .. 10 :
              ret.value.owners[r][c] = normalizeCell(OwnerGrid(arg.layout.owners)[r][c])

\* C5 amended: a board extracted from a well-formed tab-separated paste has
\* the header digits in order as homeDigits, and every ownership cell is
\* "Steven" when the lowercase letters of the pasted cell match the name
\* normalizer's rules, and otherwise the pasted cell after the text
\* cleaning, trimmed and with its white space collapsed.
C5_RoundTripUpToNormalization ==
    (ParseDone /\ WellFormedPaste(arg.layout) /\ ~ret.threw) =>
        /\ ret.value.homeDigits = HeaderDigits(arg.layout.header)
        /\ \A r \in 1 .. 10, c \in 1 .. 10 :
              ret.value.owners[r][c] =
                  IF IsStevenKey(LettersOnly(CleanedCell(OwnerGrid(arg.layout.owners)[r][c])))
                  THEN Str_Steven
                  ELSE CleanedCell(OwnerGrid(arg.layout.owners)[r][c])

C5_Witness ==
    /\ ParseDone /\ WellFormedPaste(arg.layout) /\ ~ret.threw
    /\ arg.layout.header = "padded"
    /\ OwnerGrid(arg.layout.owners)[1][1] = Str_Steve
    /\ ret.value.owners[1][1] = Str_Steven
    /\ OwnerGrid(arg.layout.owners)[1][6] = Str_AlSpaced
    /\ ret.value.owners[1][6] = <<"A", "l", " ", "B">>

\* C6: every board parseSquaresFromPastedText returns has homeDigits and
\* awayDigits that each hold every digit 0..9 exactly once and owners of
\* exactly 10 rows of exactly 10 cells, and it passes the digit-axis and
\* board-shape checks computeSquaresAnalysis makes before it reads the odds.
C6_BoardAxesArePermutations ==
    (ParseDone /\ ~ret.threw) =>
        /\ IsPermutation(ret.value.homeDigits)
        /\ IsPermutation(ret.value.awayDigits)
        /\ Len(ret.value.owners) = 10
        /\ \A r \in 1 .. 10 : Len(ret.value.owners[r]) = 10
        /\ BoardIsValid(ret.value)

C6_Witness ==
    /\ ParseDone /\ ~ret.threw
    /\ arg.layout.header = "scrambled" /\ arg.layout.away = "repeat" /\ arg.layout.startCol = 1
    /\ ret.value.homeDigits = ScrambledDigits
    /\ ret.value.awayDigits = defaultDigits

\* The window of 10 cells of row at start (from 0) reads as the digits 0..9,
\* each once.
CoversDigits(row, start) ==
    /\ start + 10 <= Len(row)
    /\ \A i \in 1 .. 10 : maybeDigit(row[start + i]) # Null
    /\ {maybeDigit(row[start + i]).v : i \in 1 .. 10} = DIGITS

\* The rows (from 0) that hold such a window.
HeaderRows(rows) ==
    {r \in 0 .. Len(rows) - 1 : \E start \in 0 .. Len(rows[r + 1]) : CoversDigits(rows[r + 1], start)}

\* C7: when at least 10 rows are tokenized, the header is the first row
\* with a window of 10 consecutive cells that read as the digits 0..9 each
\* once; the leftmost such window of that row gives startCol and
\* homeDigits, and owners are collected from the next row on.  If no row
\* has such a window, startCol = 0, homeDigits = 0..9 in order and owners
\* are collected from row 0.
C7_HeaderIsFirstLeftmostWindow ==
    (ParseDone /\ Len(ret.locals.rows) >= 10) =>
        IF HeaderRows(ret.locals.rows) = {}
        THEN /\ ret.locals.headerRowIndex = -1
             /\ ret.locals.startCol = 0
             /\ ret.locals.homeDigits = <<0, 1, 2, 3, 4, 5, 6, 7, 8, 9>>
             /\ ret.locals.ownersStartRow = 0
        ELSE /\ ret.locals.headerRowIndex \in HeaderRows(ret.locals.rows)
             /\ \A r \in HeaderRows(ret.locals.rows) : ret.locals.headerRowIndex <= r
             /\ CoversDigits(ret.locals.rows[ret.locals.headerRowIndex + 1], ret.locals.startCol)
             /\ \A start \in 0 .. ret.locals.startCol - 1 :
                   ~CoversDigits(ret.locals.rows[ret.locals.headerRowIndex + 1], start)
             /\ \A i \in 1 .. 10 :
                   Num(ret.locals.homeDigits[i])
                       = maybeDigit(ret.locals.rows[ret.locals.headerRowIndex + 1][ret.locals.startCol + i])
             /\ ret.locals.ownersStartRow = ret.locals.headerRowIndex + 1
             /\ ~ret.threw => ret.value.homeDigits = ret.locals.homeDigits

C7_Witness ==
    /\ ParseDone /\ Len(ret.locals.rows) >= 10
    /\ arg.layout.header = "none"
    /\ ret.locals.headerRowIndex = 6 /\ ret.locals.startCol = 1
    /\ CoversDigits(ret.locals.rows[7], 2)
    /\ ret.locals.homeDigits = <<4, 3, 7, 0, 9, 1, 5, 8, 2, 6>>

\* The rows (from 0) at or after start whose cells [startCol, startCol + 10)
\* all exist and are not all empty.
OwnerCandidates(rows, start, startCol) ==
    {r \in start .. Len(rows) - 1 :
        /\ Len(rows[r + 1]) >= startCol + 10
        /\ \E c \in startCol + 1 .. startCol + 10 : rows[r + 1][c] # <<>>}

\* The k-th smallest element of a set of integers.
Nth(S, k) == CHOOSE x \in S : Cardinality({y \in S : y < x}) = k - 1

\* owners is made, in order, of the normalized cells [startCol, startCol + 10)
\* of the first 10 of the candidate rows, all of them below the header.
OwnersAreFirstTen(owners, rows, headerRowIndex, startCol, candidates) ==
    /\ Len(owners) = 10
    /\ \A k \in 1 .. 10 :
          /\ Nth(candidates, k) > headerRowIndex
          /\ owners[k] = [c \in 1 .. 10 |->
                             normalizeOwnerName(rows[Nth(candidates, k) + 1][startCol + c])]

\* C8: when at least 10 rows are tokenized, then, counting from the row
\* after the header (row 0 if there is none), the owners grid is made, in
\* order, of the cells [startCol, startCol + 10) (each passed through the
\* name normalizer) of the first 10 rows in which these cells all exist and
\* are not all empty; the header row and the rows above it are never among
\* them; and if fewer than 10 rows qualify the parse fails with the
\* incomplete-grid error and returns no board.
C8_OwnersAreFirstTenQualifyingRows ==
    (ParseDone /\ Len(ret.locals.rows) >= 10) =>
        IF Cardinality(OwnerCandidates(ret.locals.rows, ret.locals.ownersStartRow,
                                       ret.locals.startCol)) < 10
        THEN ret.threw /\ ret.error = IncompleteGridError /\ ret.value = <<>>
        ELSE /\ ~ret.threw
             /\ OwnersAreFirstTen(ret.value.owners, ret.locals.rows, ret.locals.headerRowIndex,
                                  ret.locals.startCol,
                                  OwnerCandidates(ret.locals.rows, ret.locals.ownersStartRow,
                                                  ret.locals.startCol))

C8_Witness ==
    /\ ParseDone /\ Len(ret.locals.rows) >= 10 /\ ~ret.threw
    /\ arg.layout.extra = "emptyslice" /\ arg.layout.count = 11 /\ arg.layout.owners = 3
    /\ ret.locals.headerRowIndex = 1
    /\ ret.locals.collected = <<2, 3, 4, 6, 8, 9, 10, 11, 12, 13>>

\* The text is split on commas or semicolons: it has no tab, some line has
\* two cells or more, and no cell needs quoting.
DelimitedPaste ==
    /\ arg.delimiter \in {",", ";"}
    /\ \E i \in DOMAIN arg.sheet : Len(arg.sheet[i]) >= 2
    /\ \A i \in DOMAIN arg.sheet : \A j \in DOMAIN arg.sheet[i] : "," \notin Range(arg.sheet[i][j])

\* The rows of the sheet as the splitter tokenizes them: those with a
\* non-empty cell.
TokenizedRows(sheet) == SelectSeq(sheet, SomeCell)

RECURSIVE FlattenFrom(_, _, _)
FlattenFrom(rows, i, last) ==
    IF i > last THEN <<>> ELSE rows[i] \o FlattenFrom(rows, i + 1, last)

\* cells cut into pieces of width cells, the last one possibly shorter.
Chunks(cells, width) ==
    [k \in 1 .. (Len(cells) + width - 1) \div width |->
        SubSeq(cells, (k - 1) * width + 1,
               IF k * width < Len(cells) THEN k * width ELSE Len(cells))]

\* The last row of the run of rows narrower or wider than width that starts
\* at row i.
RunEnd(rows, width, i) ==
    CHOOSE e \in i .. Len(rows) :
        /\ \A r \in i .. e : Len(rows[r]) # width
        /\ e < Len(rows) => Len(rows[e + 1]) = width

\* Rows of the given width unchanged, and each run of other rows
\* concatenated and cut into rows of that width.
RECURSIVE ReassembledFrom(_, _, _)
ReassembledFrom(rows, width, i) ==
    IF i > Len(rows) THEN <<>>
    ELSE IF Len(rows[i]) = width THEN <<rows[i]>> \o ReassembledFrom(rows, width, i + 1)
    ELSE Chunks(FlattenFrom(rows, i, RunEnd(rows, width, i)), width)
         \o ReassembledFrom(rows, width, RunEnd(rows, width, i) + 1)

Reassembled(rows, width) == SelectSeq(ReassembledFrom(rows, width, 1), SomeCell)

\* The width of the widest row.
WidestRow(rows) ==
    CHOOSE w \in {Len(rows[i]) : i \in DOMAIN rows} : \A i \in DOMAIN rows : Len(rows[i]) <= w

\* C9 as stated: in delimiter-based parsing a row is ragged exactly when its
\* cell count differs from the modal column count, and rows of the modal
\* width are emitted unchanged: when one width is more frequent than every
\* other, every tokenized row of that width is a row of the result.
C9_AsStated ==
    LET count(rows, w) == Cardinality({i \in DOMAIN rows : Len(rows[i]) = w})
        modal(rows) == {w \in {Len(rows[i]) : i \in DOMAIN rows} :
                           \A v \in {Len(rows[i]) : i \in DOMAIN rows} \ {w} :
                               count(rows, v) < count(rows, w)}
    IN  (RowsDone /\ DelimitedPaste) =>
            \A w \in modal(TokenizedRows(arg.sheet)) :
                \A i \in DOMAIN TokenizedRows(arg.sheet) :
                    Len(TokenizedRows(arg.sheet)[i]) = w =>
                        \E k \in DOMAIN ret : ret[k] = TokenizedRows(arg.sheet)[i]

\* C9 amended: in comma- or semicolon-delimited parsing a row is ragged
\* exactly when it has fewer cells than the widest tokenized row; rows of
\* that greatest width are emitted unchanged, and each run of consecutive
\* ragged rows is concatenated and emitted as rows of the greatest width,
\* a shorter rest being emitted as-is; rows left with no non-empty cell are
\* dropped.
C9_RaggedBelowWidestRow ==
    (RowsDone /\ DelimitedPaste) =>
        ret = Reassembled(TokenizedRows(arg.sheet), WidestRow(TokenizedRows(arg.sheet)))

C9_Witness ==
    /\ RowsDone /\ DelimitedPaste
    /\ arg.sheet = << <<(<<"a", "1">>), (<<"a", "2">>)>>,
                      <<(<<"b", "1">>), (<<"b", "2">>)>>,
                      <<(<<"c", "1">>), (<<"c", "2">>), (<<"c", "3">>)>> >>
    /\ ret = << <<(<<"a", "1">>), (<<"a", "2">>), (<<"b", "1">>)>>,
                << (<<"b", "2">>) >>,
                <<(<<"c", "1">>), (<<"c", "2">>), (<<"c", "3">>)>> >>

----------------------------------------------------------------------------
(* Further properties of computeSquaresAnalysis.                           *)

InvalidOddsError == "American odds cannot be 0"

\* C11: americanToRawProbability(0) throws "American odds cannot be 0", and
\* computeSquaresAnalysis on a valid board, with both odds matrices complete
\* (all 100 entries finite) and a 0 among the entries, throws that error and
\* returns nothing.
C11_ZeroOddsRejected ==
    /\ americanToRawProbability(0) = Thrown(InvalidOddsError)
    /\ (/\ AnalysisDone /\ BoardIsValid(arg.board)
        /\ MissingPairs(arg.odds) = {} /\ ZeroPairs(arg.odds) # {}) =>
           /\ ret.threw
           /\ ret.value = <<>>
           /\ ret.error = InvalidOddsError

C11_Witness ==
    /\ AnalysisDone /\ BoardIsValid(arg.board)
    /\ MissingPairs(arg.odds) = {}
    /\ ZeroPairs(arg.odds) = {<<3, 7>>}
    /\ GridAt(arg.odds.anyQuarterOdds, 3, 7) = Num(0)
    /\ GridAt(arg.odds.finalResultOdds, 3, 7) # Num(0)
    /\ ret.threw /\ ret.error = InvalidOddsError

HomeAxisError == "Home digits must contain each digit 0-9 exactly once."

AwayAxisError == "Away digits must contain each digit 0-9 exactly once."

BoardShapeError == "Board ownership grid must be 10x10."

\* owners is exactly 10 rows of exactly 10 cells.
IsTenByTen(owners) == Len(owners) = 10 /\ \A r \in 1 .. 10 : Len(owners[r]) = 10

\* C12: computeSquaresAnalysis returns a result only if homeDigits and
\* awayDigits each hold every digit 0..9 exactly once and owners is 10 rows
\* of 10 cells.  Otherwise it throws, whatever the odds are: the home-axis
\* error if homeDigits is not such a permutation, else the away-axis error
\* if awayDigits is not, else the board-shape error; and on a well-formed
\* board it throws none of the three.
C12_BoardCheckedBeforeOdds ==
    AnalysisDone =>
        IF ~IsPermutation(arg.board.homeDigits) THEN ret = Thrown(HomeAxisError)
        ELSE IF ~IsPermutation(arg.board.awayDigits) THEN ret = Thrown(AwayAxisError)
        ELSE IF ~IsTenByTen(arg.board.owners) THEN ret = Thrown(BoardShapeError)
        ELSE ret.error \notin {HomeAxisError, AwayAxisError, BoardShapeError}

C12_Witness ==
    /\ AnalysisDone
    /\ arg.board.homeDigits = <<0, 0>> /\ arg.board.awayDigits = <<1, 1>>
    /\ arg.board.owners = <<>>
    /\ MissingPairs(arg.odds) # {}
    /\ ret = Thrown(HomeAxisError)

\* The trimmed name in cell k = 10 * row + col of the board (from 0).
NameAt(owners, k) == Trim(owners[(k \div 10) + 1][(k % 10) + 1])

\* The cells of the board that carry the name.
CellsOf(owners, name) == {k \in 0 .. 99 : NameAt(owners, k) = name}

\* The cells whose trimmed name is not empty.
OccupiedCells(owners) == {k \in 0 .. 99 : NameAt(owners, k) # <<>>}

\* The sum of the board's EV over a set of cells.
EvOver(boardEv, cells) ==
    SumArray(ArrayOf([k \in 1 .. 100 |->
        IF k - 1 \in cells THEN boardEv[((k - 1) \div 10) + 1][((k - 1) % 10) + 1] ELSE RatZero]))

\* stat is the rollup of the given cells.
IsRollupOf(stat, boardEv, cells) ==
    /\ stat.numSquares = Cardinality(cells)
    /\ stat.totalEv = EvOver(boardEv, cells)
    /\ \E k \in cells : stat.bestSquareEv = boardEv[(k \div 10) + 1][(k % 10) + 1]
    /\ \A k \in cells : RatLeq(boardEv[(k \div 10) + 1][(k % 10) + 1], stat.bestSquareEv)
    /\ stat.evPerSquare = RatDiv(stat.totalEv, RatInt(stat.numSquares))

\* stats has one rollup for each name on the board, and no other entry.
AreRollupsOf(stats, owners, boardEv) ==
    /\ \A i, j \in DOMAIN stats : stats[i].owner = stats[j].owner => i = j
    /\ {stats[i].owner : i \in DOMAIN stats} = {NameAt(owners, k) : k \in OccupiedCells(owners)}
    /\ \A i \in DOMAIN stats : IsRollupOf(stats[i], boardEv, CellsOf(owners, stats[i].owner))
    /\ SumArray(ArrayOf([i \in 1 .. Len(stats) |-> RatInt(stats[i].numSquares)]))
           = RatInt(Cardinality(OccupiedCells(owners)))
    /\ SumArray(ArrayOf([i \in 1 .. Len(stats) |-> stats[i].totalEv]))
           = EvOver(boardEv, OccupiedCells(owners))

\* C13: in every result, ownerStats has exactly one entry per distinct
\* non-empty trimmed owner name of the board, with numSquares the number of
\* cells carrying the name, totalEv the sum of their EV, bestSquareEv the
\* greatest of their EV and evPerSquare = totalEv / numSquares; the
\* numSquares of all entries sum to the number of occupied cells and their
\* totalEv to the EV of the occupied cells.
C13_OwnerStatsAreRollups ==
    (AnalysisDone /\ ~ret.threw) =>
        AreRollupsOf(ret.value.ownerStats, arg.board.owners, ret.value.boardEv)

C13_Witness ==
    /\ AnalysisDone /\ ~ret.threw
    /\ arg.board.owners = PaddedOwners
    /\ arg.odds.finalResultOdds = VariedFinal
    /\ Len(ret.value.ownerStats) = 2
    /\ \E i \in 1 .. 2 : /\ ret.value.ownerStats[i].owner = <<"C", "y">>
                          /\ ret.value.ownerStats[i].numSquares = 23
                          /\ RatLess(ret.value.ownerStats[i].evPerSquare,
                                     ret.value.ownerStats[i].bestSquareEv)

\* The entries of squares that stand for cell k of the board.
EntriesOf(squares, board, k) ==
    {i \in DOMAIN squares : /\ squares[i].awayDigit = board.awayDigits[(k \div 10) + 1]
                            /\ squares[i].homeDigit = board.homeDigits[(k % 10) + 1]}

\* squares has one entry for each occupied cell, carrying the cell's name
\* and EV, and no other entry.
AreCellsOf(squares, board, boardEv) ==
    /\ Len(squares) = Cardinality(OccupiedCells(board.owners))
    /\ \A k \in 0 .. 99 :
          IF k \in OccupiedCells(board.owners)
          THEN /\ Cardinality(EntriesOf(squares, board, k)) = 1
               /\ \A i \in EntriesOf(squares, board, k) :
                     /\ squares[i].owner = NameAt(board.owners, k)
                     /\ squares[i].ev = boardEv[(k \div 10) + 1][(k % 10) + 1]
          ELSE EntriesOf(squares, board, k) = {}

\* C14: in every result, topSquares has exactly one entry per occupied cell
\* of the board and none for a cell whose trimmed name is empty, and is in
\* order of non-increasing ev; ownerStats is in order of non-increasing
\* totalEv.
C14_RankingsAreSorted ==
    (AnalysisDone /\ ~ret.threw) =>
        /\ AreCellsOf(ret.value.topSquares, arg.board, ret.value.boardEv)
        /\ \A i \in 1 .. Len(ret.value.topSquares) - 1 :
              RatLeq(ret.value.topSquares[i + 1].ev, ret.value.topSquares[i].ev)
        /\ \A i \in 1 .. Len(ret.value.ownerStats) - 1 :
              RatLeq(ret.value.ownerStats[i + 1].totalEv, ret.value.ownerStats[i].totalEv)

C14_Witness ==
    /\ AnalysisDone /\ ~ret.threw
    /\ arg.board.owners = SampleOwners /\ arg.board.homeDigits = ScrambledDigits
    /\ arg.odds.finalResultOdds = VariedFinal
    /\ Len(ret.value.topSquares) = Cardinality(OccupiedCells(SampleOwners))
    /\ Len(ret.value.topSquares) > 20 /\ Len(ret.value.topSquares) < 100
    /\ RatLess(ret.value.topSquares[Len(ret.value.topSquares)].ev, ret.value.topSquares[1].ev)
    /\ Len(ret.value.ownerStats) = 3
    /\ RatLess(ret.value.ownerStats[3].totalEv, ret.value.ownerStats[1].totalEv)

RepeatDone == pc = "done" /\ arg.fn = "computeSquaresAnalysis, repeated"

----------------------------------------------------------------------------
(* Further properties of parseSquaresFromPastedText and parseRows.         *)

\* The away digit of the k-th collected row: the cell left of its slice if
\* startCol > 0 and the cell reads as an integer 0..9, else k - 1.
AwayDigitOf(rows, startCol, collected, k) ==
    IF startCol > 0 /\ maybeDigit(rows[collected[k] + 1][startCol]) # Null
    THEN maybeDigit(rows[collected[k] + 1][startCol]).v
    ELSE k - 1

\* awayDigits is the sequence of those digits if it is a permutation of
\* 0..9, and 0..9 in order otherwise.
IsAwayAxisOf(awayDigits, candidate) ==
    awayDigits = IF IsPermutation(candidate) THEN candidate ELSE <<0, 1, 2, 3, 4, 5, 6, 7, 8, 9>>

\* C16: in every board returned, the away digit of each of the 10
\* collected owner rows is the cell immediately left of its slice when
\* startCol > 0 and that cell reads as an integer 0..9, and otherwise the
\* row's position (from 0) among the collected rows; if the 10 digits so
\* obtained are not a permutation of 0..9, awayDigits is 0..9 in order and
\* the parse succeeds all the same.
C16_AwayAxisFromLeftColumn ==
    (ParseDone /\ ~ret.threw) =>
        IsAwayAxisOf(ret.value.awayDigits,
                     [k \in 1 .. 10 |-> AwayDigitOf(ret.locals.rows, ret.locals.startCol,
                                                    ret.locals.collected, k)])

C16_Witness ==
    /\ ParseDone /\ ~ret.threw
    /\ arg.layout.away = "padded" /\ arg.layout.startCol = 2 /\ arg.layout.count = 11
    /\ ret.locals.startCol = 2
    /\ ret.locals.rows[ret.locals.collected[1] + 1][2] = <<"0", "3">>
    /\ ret.value.awayDigits = <<3, 4, 5, 6, 7, 8, 9, 0, 1, 2>>

UnderfilledError == "Expected at least 10 rows from pasted Excel data."

\* The cell of column col of row rowIndex (both from 0) if the label may be
\* looked for, the cell exists, is not empty and does not read as an
\* integer 0..9; the placeholder otherwise.
LabelOr(rows, rowIndex, col, allowed, placeholder) ==
    IF /\ allowed
       /\ rowIndex < Len(rows)
       /\ col < Len(rows[rowIndex + 1])
       /\ rows[rowIndex + 1][col + 1] # <<>>
       /\ maybeDigit(rows[rowIndex + 1][col + 1]) = Null
    THEN rows[rowIndex + 1][col + 1]
    ELSE placeholder

NonBlankLines(text) ==
    SelectSeq(Split(CleanText(unwrapTextBlock(text)), "\n"), LAMBDA line : Trim(line) # <<>>)

\* The same lines, each without the white space at its end.
LinesCutAtEnd(text) ==
    ArrayOf([i \in 1 .. Len(NonBlankLines(text)) |-> TrimEnd(NonBlankLines(text)[i])])

\* The rows the detection rule gives for the lines: split on tabs only if a
\* line has a tab; else, if a line has a comma or a semicolon, split by the
\* quote-aware splitter on the one found in more lines (the comma on a tie)
\* and ragged rows reassembled; else one cell per line.  Cells are trimmed
\* and rows with no non-empty cell are dropped.
DetectedRows(lines) ==
    LET linesWith(ch) == {i \in DOMAIN lines : ch \in Range(lines[i])}
        cells(i) == IF linesWith("\t") # {} THEN Split(lines[i], "\t")
                    ELSE IF linesWith(",") \cup linesWith(";") = {} THEN <<lines[i]>>
                    ELSE parseCsvLine(lines[i],
                                      IF Cardinality(linesWith(";")) > Cardinality(linesWith(","))
                                      THEN ";" ELSE ",")
        rows == SelectSeq(ArrayOf([i \in 1 .. Len(lines) |->
                             ArrayOf([c \in 1 .. Len(cells(i)) |-> normalizeCell(cells(i)[c])])]),
                          SomeCell)
    IN  IF linesWith("\t") = {} /\ linesWith(",") \cup linesWith(";") # {} /\ rows # <<>>
        THEN Reassembled(rows, WidestRow(rows))
        ELSE rows

\* C18: delimiter auto-detection.  If any non-blank line of the text
\* contains a tab, every line is split on tabs only; otherwise, if any line
\* contains a comma or a semicolon, every line is split with the
\* quote-aware splitter on the delimiter that occurs in more lines, the
\* comma on a tie; otherwise each line is a single one-cell row.  Rows whose
\* cells are all empty after trimming are dropped in every case.
C18_DelimiterDetected == RowsDone => ret = DetectedRows(NonBlankLines(arg.text))

\* The detection rule holds of the lines without the white space at their
\* ends, which is how parseRows reads them (line 231).
DetectedAfterCutAtEnd == RowsDone => ret = DetectedRows(LinesCutAtEnd(arg.text))

----------------------------------------------------------------------------
(* Further properties of normalizeOwnerName.                               *)

NameDone == pc = "done" /\ arg.fn = "normalizeOwnerName"

\* a can be turned into b by at most k insertions, deletions or
\* replacements of one character.
RECURSIVE WithinEdits(_, _, _)
WithinEdits(a, b, k) ==
    IF k < 0 THEN FALSE
    ELSE IF a = <<>> THEN Len(b) <= k
    ELSE IF b = <<>> THEN Len(a) <= k
    ELSE IF Head(a) = Head(b) THEN WithinEdits(Tail(a), Tail(b), k)
    ELSE \/ WithinEdits(Tail(a), b, k - 1)
         \/ WithinEdits(a, Tail(b), k - 1)
         \/ WithinEdits(Tail(a), Tail(b), k - 1)

\* The key is a fixed variant, or has at most 8 letters and starts with
\* "stev" or ends with "seven", or has 5 to 8 letters and is within two
\* edits of "steven".
IsVariantKey(key) == key \in stevenVariants

HasAffix(key) ==
    \/ \E rest \in {SubSeq(key, 5, Len(key))} : key = <<"s", "t", "e", "v">> \o rest
    \/ \E rest \in {SubSeq(key, 1, Len(key) - 5)} : key = rest \o <<"s", "e", "v", "e", "n">>

MatchesSteven(key) ==
    \/ IsVariantKey(key)
    \/ Len(key) <= 8 /\ HasAffix(key)
    \/ Len(key) >= 5 /\ Len(key) <= 8 /\ WithinEdits(key, Key_steven, 2)

\* C19: an ownership cell is replaced by "Steven" if and only if its
\* lowercase letters-only key is one of steven, steve, stevie, stevo, seven,
\* tseven, or has length <= 8 and starts with "stev" or ends with "seven",
\* or has length 5..8 and edit distance <= 2 to "steven"; every other cell,
\* one with no letters included, is kept as its trimmed,
\* white-space-collapsed text.
C19_StevenIffKeyMatches ==
    NameDone =>
        ret = IF MatchesSteven(arg.key) THEN Str_Steven ELSE normalizeCell(arg.value)

C19_Witness ==
    /\ NameDone
    /\ arg.key = <<"s", "t", "e", "x", "x", "n">>
    /\ arg.value = <<" ", "s", "t", ".", " ", " ", "e", "x", "x", "n", " ", "7", " ">>
    /\ ~IsVariantKey(arg.key) /\ ~HasAffix(arg.key)
    /\ ret = Str_Steven

----------------------------------------------------------------------------
(* Further properties of the row count check of                            *)
(* parseSquaresFromPastedText.                                             *)

\* C20: pasted text that tokenizes to fewer than 10 non-blank rows fails
\* with the underfilled-input error, "Expected at least 10 rows from pasted
\* Excel data."; the check comes before the header search, whose locals do
\* not exist yet, so the error is not the incomplete-grid one, and no
\* board is returned.
C20_UnderfilledInputRejected ==
    (ParseDone /\ Len(ret.locals.rows) < 10) =>
        /\ [threw |-> ret.threw, value |-> ret.value, error |-> ret.error]
              = Thrown(UnderfilledError)
        /\ ret.error # IncompleteGridError
        /\ DOMAIN ret.locals = {"rows"}

C20_Witness ==
    /\ ParseDone
    /\ arg.layout.count = 9 /\ arg.layout.header = "none" /\ arg.layout.startCol = 0
    /\ arg.layout.extra = "blankline"
    /\ Len(IndicesOf(arg.text, "\n")) = 10
    /\ Len(ret.locals.rows) = 9
    /\ \A r \in 1 .. 9 : Len(ret.locals.rows[r]) = 10
    /\ ret.threw /\ ret.error = UnderfilledError

----------------------------------------------------------------------------
(* Re-indexing of the digit-keyed surfaces into board order.               *)

\* The value a digit-keyed grid holds for the digits of cell k = 10 * row +
\* col of the board (from 0): grid[awayDigits[row]][homeDigits[col]].
AtCell(grid, board, k) ==
    grid[board.awayDigits[(k \div 10) + 1] + 1][board.homeDigits[(k % 10) + 1] + 1]

\* C21: in every result, boardEv has 10 rows of 10 cells and, for every row
\* r and column c, occupied or not, boardEv[r][c] =
\* evByDigit[awayDigits[r]][homeDigits[c]]; and the topSquares entry of an
\* occupied cell (r, c) carries awayDigit = awayDigits[r], homeDigit =
\* homeDigits[c], ev = evByDigit and probability = combinedProbability at
\* that pair of digits.
C21_BoardEvIsReindexed ==
    (AnalysisDone /\ ~ret.threw) =>
        /\ Len(ret.value.boardEv) = 10
        /\ \A r \in 1 .. 10 : Len(ret.value.boardEv[r]) = 10
        /\ \A k \in 0 .. 99 :
              ret.value.boardEv[(k \div 10) + 1][(k % 10) + 1]
                  = AtCell(ret.value.evByDigit, arg.board, k)
        /\ \A k \in OccupiedCells(arg.board.owners) :
              \E i \in DOMAIN ret.value.topSquares :
                  /\ ret.value.topSquares[i].owner = NameAt(arg.board.owners, k)
                  /\ ret.value.topSquares[i].awayDigit = arg.board.awayDigits[(k \div 10) + 1]
                  /\ ret.value.topSquares[i].homeDigit = arg.board.homeDigits[(k % 10) + 1]
                  /\ ret.value.topSquares[i].ev = AtCell(ret.value.evByDigit, arg.board, k)
                  /\ ret.value.topSquares[i].probability
                        = AtCell(ret.value.combinedProbability, arg.board, k)
        /\ \A i \in DOMAIN ret.value.topSquares :
              /\ ret.value.topSquares[i].ev
                    = ret.value.evByDigit[ret.value.topSquares[i].awayDigit + 1]
                                         [ret.value.topSquares[i].homeDigit + 1]
              /\ ret.value.topSquares[i].probability
                    = ret.value.combinedProbability[ret.value.topSquares[i].awayDigit + 1]
                                                   [ret.value.topSquares[i].homeDigit + 1]

\* A board whose axes are two different scrambled orders and which has
\* unclaimed cells, with odds that differ from pair to pair: the EV of the
\* unclaimed cell (0, 6) is that of the digits (awayDigits[0],
\* homeDigits[6]) and not that of the transposed pair or of (0, 6).
C21_Witness ==
    /\ AnalysisDone /\ ~ret.threw
    /\ arg.board.owners = PaddedOwners
    /\ arg.board.homeDigits = ScrambledDigits /\ arg.board.awayDigits = ReversedDigits
    /\ arg.odds.finalResultOdds = VariedFinal
    /\ 6 \notin OccupiedCells(arg.board.owners)
    /\ ret.value.boardEv[1][7] = ret.value.evByDigit[ReversedDigits[1] + 1][ScrambledDigits[7] + 1]
    /\ ret.value.boardEv[1][7] # ret.value.evByDigit[ScrambledDigits[7] + 1][ReversedDigits[1] + 1]
    /\ ret.value.boardEv[1][7] # ret.value.evByDigit[1][7]

----------------------------------------------------------------------------
(* Trailing empty cells of tab-separated lines.                            *)

\* C22: in tab-separated input a line containing k tab characters
\* tokenizes to a row of exactly k + 1 cells, trailing empty cells
\* included; so, in a paste of a header row and 10 owner rows of 10 cells,
\* an owner row whose last cells are unclaimed is collected with empty
\* strings in those cells: the parse returns a board whose owners are 10
\* rows of 10 cells, empty where the pasted cell was empty.
C22_TrailingEmptyCellsKept ==
    (ParseDone /\ arg.layout.delimiter = "\t") =>
        /\ Len(ret.locals.rows) = Len(NonBlankLines(arg.text))
        /\ \A i \in DOMAIN ret.locals.rows :
              Len(ret.locals.rows[i]) = Len(IndicesOf(NonBlankLines(arg.text)[i], "\t")) + 1
        /\ WellFormedPaste(arg.layout) =>
              /\ ~ret.threw
              /\ \A r \in 1 .. 10 :
                    /\ Len(ret.value.owners[r]) = 10
                    /\ \A c \in 1 .. 10 :
                          OwnerGrid(arg.layout.owners)[r][c] = <<>> => ret.value.owners[r][c] = <<>>

----------------------------------------------------------------------------
(* Unwrapping of a quoted or fenced paste.                                 *)

WrapDone == pc = "done" /\ arg.fn = "parseSquaresFromPastedText, wrapped"

\* The text is not itself between the marks of a wrapper pair.
IsBare(text) ==
    \A w \in DOMAIN Wrappers :
        ~(StartsWith(Trim(text), Wrappers[w][1]) /\ EndsWith(Trim(text), Wrappers[w][2]))

\* What the caller of parseSquaresFromPastedText gets: a board or an error.
OutcomeOf(parsed) == [threw |-> parsed.threw, value |-> parsed.value, error |-> parsed.error]

\* C23: unwrapping is transparent.  For a text that is not itself bounded
\* by a wrapper pair and any of the six wrapper pairs, parsing the text
\* between the marks of the pair yields the same rows, and the same board
\* or the same error, as parsing the text; in particular the leading blank
\* cell of the first data line is there in both cases.
C23_UnwrappingIsTransparent ==
    (WrapDone /\ IsBare(arg.text)) =>
        /\ ret.wrapped.locals.rows = ret.plain.locals.rows
        /\ OutcomeOf(ret.wrapped) = OutcomeOf(ret.plain)

----------------------------------------------------------------------------
(* Reconciliation of the board's team labels with the odds.                *)

\* A board label is the placeholder only if the name the odds carry for
\* that team is the placeholder.
LabelsAreReconciled(board, odds) ==
    /\ board.homeTeam = HomeTeamPlaceholder => odds.homeTeam = HomeTeamPlaceholder
    /\ board.awayTeam = AwayTeamPlaceholder => odds.awayTeam = AwayTeamPlaceholder

\* A step that ends a load of the odds: a board held keeps its digits, its
\* owners and every label that is not the placeholder.
LoadKeepsPastedLabels ==
    (dashboard.loadingOdds /\ ~dashboard'.loadingOdds /\ dashboard.board # Null) =>
        /\ dashboard'.board # Null
        /\ dashboard'.board.homeDigits = dashboard.board.homeDigits
        /\ dashboard'.board.awayDigits = dashboard.board.awayDigits
        /\ dashboard'.board.owners = dashboard.board.owners
        /\ dashboard.board.homeTeam # HomeTeamPlaceholder =>
              dashboard'.board.homeTeam = dashboard.board.homeTeam
        /\ dashboard.board.awayTeam # AwayTeamPlaceholder =>
              dashboard'.board.awayTeam = dashboard.board.awayTeam

\* A step that ends a load with an error, or that reports a parse error,
\* changes neither the odds nor the board.
FailureKeepsOddsAndBoard ==
    (\/ dashboard.loadingOdds /\ ~dashboard'.loadingOdds /\ dashboard'.oddsError # ""
     \/ dashboard'.boardError # "" /\ dashboard'.boardError # dashboard.boardError) =>
        /\ dashboard'.odds = dashboard.odds
        /\ dashboard'.board = dashboard.board

\* C24: in every interleaving of odds loads that succeed or fail and of
\* board parses, whenever the dashboard holds both a board and odds, a team
\* label of the board is the placeholder only if the odds' name for that
\* team is the placeholder; a label taken from the pasted text is never
\* overwritten by an odds load; and a failed odds load or a failed parse
\* leaves the stored odds and board unchanged.
C24_LabelsReconciled ==
    /\ []((dashboard.board # Null /\ dashboard.odds # Null) =>
             LabelsAreReconciled(dashboard.board, dashboard.odds))
    /\ [][LoadKeepsPastedLabels /\ FailureKeepsOddsAndBoard]_vars

\* The board keeps the home label of the paste beside odds that name
\* another home team, its away label is the odds' name, and the last load
\* failed.
C24_Witness ==
    /\ dashboard.board # Null /\ dashboard.odds # Null
    /\ dashboard.board.homeTeam = Str_Chiefs
    /\ dashboard.odds.homeTeam = <<"K", "C">>
    /\ dashboard.board.awayTeam = <<"S", "F">>
    /\ dashboard.odds.awayTeam = <<"S", "F">>
    /\ dashboard.oddsError # ""
    /\ dashboard.boardError # ""

====
